---- MODULE Spec2Model ----
(***************************************************************************)
(* Model of the proximal SDCA solver for linear models                     *)
(* (linear_optimizer/python/utils/sdca_ops.py): the _SDCAModel             *)
(* constructor, the prediction and loss entry points, and the execution of *)
(* the operations built by minimize() and update_weights().                *)
(*                                                                         *)
(* Conventions                                                             *)
(*   - A Python value that may be None, a list or a tensor is a record     *)
(*     with a "kind" field; a dict is a function from its keys.            *)
(*   - float32/float64 values are exact rationals <<n, d>> in lowest terms *)
(*     (d > 0); rounding is not modelled.                                  *)
(*   - The regularization strengths are given in halves: Half == 2 stands  *)
(*     for the literal 1.0 of the source.                                  *)
(*   - An operation of the dataflow graph runs as one atomic step once all *)
(*     its data and control inputs have run; a variable is read when the   *)
(*     operation consuming it runs.                                        *)
(***************************************************************************)
EXTENDS Integers, Sequences, FiniteSets, TLC

\* ------------------------------------------------------------------------
\* Generic helpers
\* ------------------------------------------------------------------------
Range(s) == {s[i] : i \in DOMAIN s}

Abs(n) == IF n < 0 THEN -n ELSE n

Sign(n) == IF n < 0 THEN -1 ELSE IF n > 0 THEN 1 ELSE 0

Max(a, b) == IF a >= b THEN a ELSE b

RECURSIVE Gcd(_, _)
Gcd(a, b) == IF b = 0 THEN a ELSE Gcd(b, a % b)

\* Rationals in lowest terms with a positive denominator.
Rat(n, d) ==
  LET g == Gcd(Abs(n), Abs(d))
      s == IF d < 0 THEN -1 ELSE 1
  IN  << (s * n) \div g, (s * d) \div g >>

R(n) == << n, 1 >>

RatAdd(a, b) == Rat(a[1] * b[2] + b[1] * a[2], a[2] * b[2])

RatSub(a, b) == Rat(a[1] * b[2] - b[1] * a[2], a[2] * b[2])

RatMul(a, b) == Rat(a[1] * b[1], a[2] * b[2])

RatAbs(a) == << Abs(a[1]), a[2] >>

RatSign(a) == R(Sign(a[1]))

RatMax(a, b) == IF a[1] * b[2] >= b[1] * a[2] THEN a ELSE b

RECURSIVE RatSum(_)
RatSum(s) == IF s = << >> THEN R(0) ELSE RatAdd(s[1], RatSum(Tail(s)))

RECURSIVE Concat(_)
Concat(ss) == IF ss = << >> THEN << >> ELSE ss[1] \o Concat(Tail(ss))

\* Python values: None, a list, a tensor (or any other non-list object),
\* a number, a string.
NoneVal == [kind |-> "None"]

ListOf(v) == [kind |-> "list", val |-> v]

TensorOf(v) == [kind |-> "tensor", val |-> v]

NumOf(n) == [kind |-> "num", val |-> n]

StrOf(s) == [kind |-> "str", val |-> s]

EmptyDict == << >>

\* ------------------------------------------------------------------------
\* Program constants
\* ------------------------------------------------------------------------
supported_losses ==
  {"logistic_loss", "squared_loss", "hinge_loss", "smooth_hinge_loss",
   "poisson_loss"}

\* The literal 1.0 of the l2 warning threshold, in the unit of the
\* regularization strengths (halves).
Half == 2

default_value == << 0, 0, 0, 0 >>

\* ------------------------------------------------------------------------
\* The user's weight variables.  A weight variable is either one Variable
\* or a list of Variables, one per partition (partitioned on axis 0).
\* ------------------------------------------------------------------------
SparseLayout ==
  << [partitioned |-> TRUE, rows |-> << 2, 1 >>],
     [partitioned |-> FALSE, rows |-> << 2 >>] >>

DenseLayout ==
  << [partitioned |-> TRUE, rows |-> << 1, 1 >>] >>

\* Initial value of row i (1-based, in concatenated order) of a user variable.
InitialWeight(i) == R(i - 2)

Offset(rows, p) == IF p = 1 THEN 0 ELSE Len(Concat([q \in 1..(p - 1) |-> [j \in 1..rows[q] |-> 0]]))

MakeVar(lay) ==
  [partitioned |-> lay.partitioned,
   parts |-> [p \in DOMAIN lay.rows |->
                [r \in 1..lay.rows[p] |-> InitialWeight(Offset(lay.rows, p) + r)]]]

UserVariables ==
  [sparse_features_weights |->
     ListOf([v \in DOMAIN SparseLayout |-> MakeVar(SparseLayout[v])]),
   dense_features_weights |->
     ListOf([v \in DOMAIN DenseLayout |-> MakeVar(DenseLayout[v])])]

\* ------------------------------------------------------------------------
\* State
\* ------------------------------------------------------------------------
VARIABLES
  ctor,            \* the last constructor call: its arguments and outcome
  self_examples,   \* _SDCAModel._examples
  self_variables,  \* _SDCAModel._variables (the user's primary variables)
  self_options,    \* _SDCAModel._options
  self_slots,      \* _SDCAModel._slots (the unshrunk variables)
  self_hashtable,  \* _SDCAModel._hashtable (the dual-state table)
  call,            \* the last call of predictions / *_loss and its outcome
  global_step,     \* the step counter handed to minimize
  graph,           \* the operations built by minimize / update_weights
  run,             \* the execution of the graph by each worker
  runs,            \* the number of executions started
  last_state       \* per example id, the dual state last returned for it

vars == << ctor, self_examples, self_variables, self_options, self_slots,
           self_hashtable, call, global_step, graph, run, runs, last_state >>

objVars == << self_examples, self_variables, self_options, self_slots,
              self_hashtable >>

trainVars == << global_step, graph, run, runs, last_state >>

\* ------------------------------------------------------------------------
\* _SDCAModel.__init__
\* ------------------------------------------------------------------------
\* _assert_specified: the message of the ValueError is built from
\* check_in[x], which is None on this path, so evaluating
\* None + ' must be specified.' raises TypeError before the ValueError exists.
assert_specified(items, check_in) ==
  IF \E i \in DOMAIN items : check_in[items[i]].kind = "None"
  THEN "TypeError" ELSE "none"

assert_list(items, check_in) ==
  IF \E i \in DOMAIN items : check_in[items[i]].kind # "list"
  THEN "ValueError" ELSE "none"

symmetric_l1_regularization(options) == options["symmetric_l1_regularization"].val

symmetric_l2_regularization(options) == options["symmetric_l2_regularization"].val

num_table_shards(options) ==
  IF "num_table_shards" \in DOMAIN options
     /\ options["num_table_shards"].kind # "None"
  THEN options["num_table_shards"].val ELSE 1

var_to_list(var) == var.parts

\* _create_slots: one zero-initialised unshrunk Variable per partition of
\* every primary variable.
create_slots(variables) ==
  [name \in {"sparse_features_weights", "dense_features_weights"} |->
     [v \in DOMAIN variables[name].val |->
        [partitioned |-> variables[name].val[v].partitioned,
         parts |-> [p \in DOMAIN variables[name].val[v].parts |->
                      [r \in DOMAIN variables[name].val[v].parts[p] |-> R(0)]]]]]

\* The sharded dual-state table: one key -> value map per shard.
ShardedTable(num_shards) == [s \in 1..num_shards |-> << >>]

NoSlots == << >>

NoTable == << >>

Raise(st, e) == [st EXCEPT !.exc = e]

\* options['loss_type'] not in supported_losses
check_loss_type(st, options) ==
  IF options["loss_type"].kind = "str"
     /\ options["loss_type"].val \in supported_losses
  THEN st ELSE Raise(st, "ValueError")

\* Variant: l2 = 0 is let through.
check_l2_negative(st, options) ==
  IF symmetric_l2_regularization(options) < 0
  THEN Raise(st, "ValueError") ELSE st

\* options['symmetric_l2_regularization'] <= 0.0
check_l2_positive(st, options) ==
  IF symmetric_l2_regularization(options) <= 0
  THEN Raise(st, "ValueError") ELSE st

\* options['symmetric_l2_regularization'] <= 1.0: a warning, no exception.
warn_l2_small(st, options) ==
  IF symmetric_l2_regularization(options) <= Half
  THEN [st EXCEPT !.warned = TRUE] ELSE st

\* options['symmetric_l1_regularization'] < 0.0
check_l1_non_negative(st, options) ==
  IF symmetric_l1_regularization(options) < 0
  THEN Raise(st, "ValueError") ELSE st

\* Variant: the loss type is checked last, after the slots and the table.
InitSteps_LossTypeLast ==
  << "all_specified", "examples_specified", "examples_list",
     "variables_specified", "variables_list", "options_specified",
     "l2_positive", "l2_warning", "l1_non_negative", "assign",
     "create_slots", "hashtable", "loss_type" >>

\* The statements of __init__, in program order.
InitSteps ==
  << "all_specified", "loss_type", "examples_specified", "examples_list",
     "variables_specified", "variables_list", "options_specified",
     "l2_positive", "l2_warning", "l1_non_negative", "assign",
     "create_slots", "hashtable" >>

\* The object before __init__ has run.
NewObject ==
  [exc |-> "none", warned |-> FALSE, examples |-> EmptyDict,
   variables |-> EmptyDict, options |-> EmptyDict, slots |-> NoSlots,
   hashtable |-> NoTable]

\* One statement of __init__ applied to the object under construction.
init_step(step, st, examples, variables, options) ==
  CASE step = "all_specified" ->
         IF DOMAIN examples = {} \/ DOMAIN variables = {} \/ DOMAIN options = {}
         THEN Raise(st, "ValueError") ELSE st
    [] step = "loss_type" -> check_loss_type(st, options)
    [] step = "examples_specified" ->
         Raise(st, assert_specified(
                     << "example_labels", "example_weights", "example_ids",
                        "sparse_features", "dense_features" >>, examples))
    [] step = "examples_list" ->
         Raise(st, assert_list(<< "sparse_features", "dense_features" >>, examples))
    [] step = "variables_specified" ->
         Raise(st, assert_specified(
                     << "sparse_features_weights", "dense_features_weights" >>,
                     variables))
    [] step = "variables_list" ->
         Raise(st, assert_list(
                     << "sparse_features_weights", "dense_features_weights" >>,
                     variables))
    [] step = "options_specified" ->
         Raise(st, assert_specified(
                     << "loss_type", "symmetric_l2_regularization",
                        "symmetric_l1_regularization" >>, options))
    [] step = "l2_positive" -> check_l2_positive(st, options)
    [] step = "l2_warning" -> warn_l2_small(st, options)
    [] step = "l1_non_negative" -> check_l1_non_negative(st, options)
    [] step = "assign" ->
         [st EXCEPT !.examples = examples, !.variables = variables,
                    !.options = options]
    [] step = "create_slots" ->
         [st EXCEPT !.slots = create_slots(variables)]
    [] step = "hashtable" ->
         [st EXCEPT !.hashtable = ShardedTable(num_table_shards(options))]

\* Runs the statements in order; an exception ends the constructor.
RECURSIVE run_init(_, _, _, _, _)
run_init(steps, st, examples, variables, options) ==
  IF steps = << >> \/ st.exc # "none" THEN st
  ELSE run_init(Tail(steps),
                init_step(Head(steps), st, examples, variables, options),
                examples, variables, options)

\* The object left by __init__(examples, variables, options).
SDCAModel_init(examples, variables, options) ==
  run_init(InitSteps, NewObject, examples, variables, options)

\* ------------------------------------------------------------------------
\* Predictions and losses
\* ------------------------------------------------------------------------
\* A computed value or the exception raised while building it.
Value(v) == [exc |-> "none", val |-> v]

Raised(e) == [exc |-> e, val |-> << >>]

NaN == [fn |-> "nan"]

\* The float infinity of the given sign.
Inf(sign) == [fn |-> "inf", sign |-> sign]

\* _convert_n_to_tensor: a partitioned variable is concatenated on axis 0.
convert_n_to_tensor(input_list) ==
  [x \in DOMAIN input_list |-> Concat(var_to_list(input_list[x]))]

\* Variant: a segment yields one of its elements instead of their sum.
segment_sum_one_per_segment(data, segment_ids) ==
  LET n == IF segment_ids = << >> THEN 0 ELSE segment_ids[Len(segment_ids)] + 1
      Sel(i) == {j \in DOMAIN segment_ids : segment_ids[j] = i - 1}
  IN  [i \in 1..n |->
         IF Sel(i) = {} THEN R(0) ELSE data[CHOOSE j \in Sel(i) : TRUE]]

\* tf.math.segment_sum(data, segment_ids) for sorted segment ids (0-based):
\* one sum per id up to the largest, 0 for an id without data.
segment_sum(data, segment_ids) ==
  LET n == IF segment_ids = << >> THEN 0 ELSE segment_ids[Len(segment_ids)] + 1
      Sel(i) == {j \in DOMAIN segment_ids : segment_ids[j] = i - 1}
      RECURSIVE SumOver(_)
      SumOver(J) == IF J = {} THEN R(0)
                    ELSE LET j == CHOOSE k \in J : TRUE
                         IN  RatAdd(data[j], SumOver(J \ {j}))
  IN  [i \in 1..n |-> SumOver(Sel(i))]

\* The contribution of one sparse column: gather, multiply by the feature
\* values, segment_sum over the example indices, pad to the batch size.
\* tf.math.multiply(x, None) raises ValueError (None values not supported).
sparse_dot_product(sfc, sv, batch_size) ==
  IF sfc.feature_values.kind = "None" THEN Raised("ValueError")
  ELSE LET gathered == [j \in DOMAIN sfc.feature_indices |->
                          sv[sfc.feature_indices[j] + 1]]
           product == [j \in DOMAIN gathered |->
                         RatMul(gathered[j], sfc.feature_values.val[j])]
           unpadded_dot_product == segment_sum(product, sfc.example_indices)
       IN  IF Len(unpadded_dot_product) > batch_size
           THEN Raised("InvalidArgumentError")
           ELSE Value([e \in 1..batch_size |->
                         IF e <= Len(unpadded_dot_product)
                         THEN unpadded_dot_product[e] ELSE R(0)])

\* tf.squeeze(tf.linalg.matmul(dense_features, expand_dims(dense_variables, -1)))
dense_dot_product(dense_features, dense_variables) ==
  [e \in DOMAIN dense_features |->
     RatSum([k \in DOMAIN dense_variables |->
               RatMul(dense_features[e][k], dense_variables[k])])]

AddVec(a, b) == [e \in DOMAIN a |-> RatAdd(a[e], b[e])]

\* _linear_predictions: w*x, one element per example of the batch.
linear_predictions(examples, variables) ==
  LET batch_size == Len(examples["example_ids"].val)
      sparse_variables == convert_n_to_tensor(variables["sparse_features_weights"].val)
      sfcs == examples["sparse_features"].val
      dense_features == convert_n_to_tensor(examples["dense_features"].val)
      dense_variables == convert_n_to_tensor(variables["dense_features_weights"].val)
      nsparse == IF Len(sfcs) <= Len(sparse_variables)
                 THEN Len(sfcs) ELSE Len(sparse_variables)
      RECURSIVE Sparse(_, _)
      Sparse(i, acc) ==
        IF i > nsparse \/ acc.exc # "none" THEN acc
        ELSE LET d == sparse_dot_product(sfcs[i], sparse_variables[i], batch_size)
             IN  IF d.exc # "none" THEN d
                 ELSE Sparse(i + 1, Value(AddVec(acc.val, d.val)))
      RECURSIVE Dense(_, _)
      Dense(i, acc) ==
        IF i > Len(dense_variables) \/ acc.exc # "none" THEN acc
        ELSE IF i > Len(dense_features) THEN Raised("IndexError")
        ELSE Dense(i + 1, Value(AddVec(acc.val,
                  dense_dot_product(dense_features[i], dense_variables[i]))))
  IN  Dense(1, Sparse(1, Value([e \in 1..batch_size |-> R(0)])))

\* The checks shared by predictions and the two losses.
assert_examples(items, examples) ==
  IF assert_specified(items, examples) # "none"
  THEN assert_specified(items, examples)
  ELSE assert_list(<< "sparse_features", "dense_features" >>, examples)

\* Variant: the logistic and Poisson branches are exchanged.
predictions_swapped(examples, variables, options) ==
  LET chk == assert_examples(
               << "example_weights", "sparse_features", "dense_features" >>,
               examples)
  IN  IF chk # "none" THEN Raised(chk)
      ELSE LET result == linear_predictions(examples, variables)
           IN  IF result.exc # "none" THEN result
               ELSE IF options["loss_type"].val = "poisson_loss"
               THEN Value([fn |-> "sigmoid", arg |-> result.val])
               ELSE IF options["loss_type"].val = "logistic_loss"
               THEN Value([fn |-> "exp", arg |-> result.val])
               ELSE Value([fn |-> "linear", arg |-> result.val])

\* predictions: sigmoid / exp / raw w*x, by loss type.  The element-wise
\* sigmoid and exp are kept as applications to the linear prediction.
predictions(examples, variables, options) ==
  LET chk == assert_examples(
               << "example_weights", "sparse_features", "dense_features" >>,
               examples)
  IN  IF chk # "none" THEN Raised(chk)
      ELSE LET result == linear_predictions(examples, variables)
           IN  IF result.exc # "none" THEN result
               ELSE IF options["loss_type"].val = "logistic_loss"
               THEN Value([fn |-> "sigmoid", arg |-> result.val])
               ELSE IF options["loss_type"].val = "poisson_loss"
               THEN Value([fn |-> "exp", arg |-> result.val])
               ELSE Value([fn |-> "linear", arg |-> result.val])

\* Every element of every partition of every primary variable.
all_weights(variables) ==
  Concat(convert_n_to_tensor(variables["sparse_features_weights"].val
                             \o variables["dense_features_weights"].val))

\* _l1_loss: l1 * sum(|weights|) (l1 is given in halves).
l1_loss(variables, options) ==
  RatMul(Rat(symmetric_l1_regularization(options), Half),
         RatSum([i \in DOMAIN all_weights(variables) |->
                   RatAbs(all_weights(variables)[i])]))

\* _l2_loss: l2 * sum(weights^2) / 2 (l2 is given in halves).
l2_loss(variables, options) ==
  RatMul(Rat(symmetric_l2_regularization(options), Half * 2),
         RatSum([i \in DOMAIN all_weights(variables) |->
                   RatMul(all_weights(variables)[i], all_weights(variables)[i])]))

\* a / b in float arithmetic: no error is raised for a zero divisor, 0 / 0
\* is NaN and x / 0 is the infinity of the sign of x.
RatDiv(a, b) ==
  IF b[1] = 0 THEN (IF a[1] = 0 THEN NaN ELSE Inf(Sign(a[1])))
  ELSE [fn |-> "num", val |-> Rat(a[1] * b[2], a[2] * b[1])]

\* unregularized_loss: the weighted mean loss of the batch.  Hinge and squared
\* losses are computed; the logistic and Poisson losses are kept as
\* applications to (labels, w*x, weights).
unregularized_loss(examples, variables, options) ==
  LET chk == assert_examples(
               << "example_labels", "example_weights", "sparse_features",
                  "dense_features" >>, examples)
  IN  IF chk # "none" THEN Raised(chk)
      ELSE LET lp == linear_predictions(examples, variables)
               labels == examples["example_labels"].val
               weights == examples["example_weights"].val
               sumw == RatSum(weights)
               hinge == [e \in DOMAIN labels |->
                           RatMul(RatMax(R(0),
                                    RatSub(R(1),
                                      RatMul(RatSub(RatMul(R(2), labels[e]), R(1)),
                                             lp.val[e]))),
                                  weights[e])]
               squared == [e \in DOMAIN labels |->
                             RatMul(RatMul(RatSub(labels[e], lp.val[e]),
                                           RatSub(labels[e], lp.val[e])),
                                    weights[e])]
           IN  IF lp.exc # "none" THEN lp
               ELSE IF options["loss_type"].val = "logistic_loss"
               THEN Value([fn |-> "sigmoid_cross_entropy", labels |-> labels,
                           logits |-> lp.val, weights |-> weights])
               ELSE IF options["loss_type"].val = "poisson_loss"
               THEN Value([fn |-> "log_poisson_loss", labels |-> labels,
                           logits |-> lp.val, weights |-> weights])
               ELSE IF options["loss_type"].val \in {"hinge_loss", "smooth_hinge_loss"}
               THEN Value(RatDiv(RatSum(hinge), sumw))
               ELSE Value(RatDiv(RatSum(squared), RatMul(R(2), sumw)))

\* regularized_loss: (l1 loss + l2 loss) / sum(weights) + unregularized loss.
regularized_loss(examples, variables, options) ==
  LET chk == assert_examples(
               << "example_labels", "example_weights", "sparse_features",
                  "dense_features" >>, examples)
  IN  IF chk # "none" THEN Raised(chk)
      ELSE LET u == unregularized_loss(examples, variables, options)
           IN  IF u.exc # "none" THEN u
               ELSE Value([fn |-> "sum",
                           regularization |->
                             RatDiv(RatAdd(l1_loss(variables, options),
                                           l2_loss(variables, options)),
                                    RatSum(examples["example_weights"].val)),
                           unregularized |-> u.val])

\* ------------------------------------------------------------------------
\* Inputs of the constructor and of the prediction / loss entry points
\* ------------------------------------------------------------------------
\* Largest l1 and l2 strengths tried (in halves), most entries of a sparse
\* column; the example ids, and so the batch size, of the examples handed to
\* predictions and the losses.
MaxL1 == 1

MaxL2 == 3

ApiExampleIds == << 1, 2 >>

BatchSize == Len(ApiExampleIds)

MaxEntries == 2

NumRows(lay) == Len(Concat([p \in DOMAIN lay.rows |-> [j \in 1..lay.rows[p] |-> 0]]))

\* Sparse columns of at most MaxEntries entries <e, f, v> over n features,
\* sorted by example index; the values are absent or 1, 2, ... by position.
Entries(n, len) ==
  {s \in [1..len -> (0..(BatchSize - 1)) \X (0..(n - 1))] :
     \A j \in 1..(len - 1) : s[j][1] <= s[j + 1][1]}

SparseFeatureColumn(entries, feature_values) ==
  [example_indices |-> [j \in DOMAIN entries |-> entries[j][1]],
   feature_indices |-> [j \in DOMAIN entries |-> entries[j][2]],
   feature_values |-> feature_values]

Columns(n) ==
  UNION {{SparseFeatureColumn(s, NoneVal),
          SparseFeatureColumn(s, TensorOf([j \in DOMAIN s |-> R(j)]))} :
         s \in UNION {Entries(n, len) : len \in 0..MaxEntries}}

\* The second sparse column, with and without its values.
SecondColumn ==
  SparseFeatureColumn(<< << 0, 1 >>, << BatchSize - 1, 0 >> >>,
                      TensorOf(<< R(1), R(-1) >>))

SecondColumnNoValues ==
  SparseFeatureColumn(<< << 0, 1 >>, << BatchSize - 1, 0 >> >>, NoneVal)

DenseFeatures ==
  [v \in DOMAIN DenseLayout |->
     [parts |-> << [e \in 1..BatchSize |->
                      [k \in 1..NumRows(DenseLayout[v]) |-> R(e - k)]] >>]]

Batch(example_ids, c1, c2) ==
  [example_ids |-> TensorOf(example_ids),
   example_labels |-> TensorOf([e \in 1..BatchSize |-> R(e % 2)]),
   example_weights |-> TensorOf([e \in 1..BatchSize |-> R(e)]),
   sparse_features |-> ListOf(<< c1, c2 >>),
   dense_features |-> ListOf(DenseFeatures)]

WellFormedExamples(c1, c2) == Batch(ApiExampleIds, c1, c2)

DefaultExamples ==
  WellFormedExamples(
    SparseFeatureColumn(<< << 0, 0 >> >>, TensorOf(<< R(1) >>)), SecondColumn)

\* DefaultExamples with one entry replaced by None or by a non-list object.
CtorExamples ==
  {EmptyDict, DefaultExamples}
  \cup {[DefaultExamples EXCEPT ![k] = NoneVal] : k \in DOMAIN DefaultExamples}
  \cup {[DefaultExamples EXCEPT ![k] = TensorOf(@.val)] :
          k \in {"sparse_features", "dense_features"}}

\* DefaultExamples with entries replaced by None or by a non-list object.
IllFormedExamples ==
  {[DefaultExamples EXCEPT
      !["example_labels"] = IF l THEN NoneVal ELSE @,
      !["example_weights"] = IF w THEN NoneVal ELSE @,
      !["sparse_features"] = IF sf = "None" THEN NoneVal
                             ELSE IF sf = "tensor" THEN TensorOf(@.val) ELSE @,
      !["dense_features"] = IF df = "None" THEN NoneVal
                            ELSE IF df = "tensor" THEN TensorOf(@.val) ELSE @] :
     l \in BOOLEAN, w \in BOOLEAN, sf \in {"None", "tensor", "list"},
     df \in {"None", "tensor", "list"}}

ApiExamples ==
  IllFormedExamples
  \cup {WellFormedExamples(c1, SecondColumn) : c1 \in Columns(NumRows(SparseLayout[1]))}
  \cup {WellFormedExamples(
          SparseFeatureColumn(<< << 0, 0 >> >>, TensorOf(<< R(1) >>)),
          SecondColumnNoValues)}

CtorVariables ==
  {EmptyDict, UserVariables}
  \cup {[UserVariables EXCEPT ![k] = NoneVal] : k \in DOMAIN UserVariables}
  \cup {[UserVariables EXCEPT ![k] = TensorOf(@.val)] : k \in DOMAIN UserVariables}

LossTypeInputs ==
  {NoneVal} \cup {StrOf(l) : l \in supported_losses \cup {"absolute_loss", "LOGISTIC_LOSS"}}

L1Inputs == {NoneVal} \cup {NumOf(n) : n \in (-1)..MaxL1}

L2Inputs == {NoneVal} \cup {NumOf(n) : n \in (-1)..MaxL2}

CtorOptions ==
  {EmptyDict}
  \cup {[loss_type |-> lt, symmetric_l1_regularization |-> l1,
         symmetric_l2_regularization |-> l2] :
          lt \in LossTypeInputs, l1 \in L1Inputs, l2 \in L2Inputs}

\* ------------------------------------------------------------------------
\* Specification of the constructor and the prediction / loss entry points
\* ------------------------------------------------------------------------
NoCall == [op |-> "none"]

NoCtor == [called |-> FALSE]

NoGraph == [built |-> FALSE]

InitApi ==
  /\ ctor = NoCtor
  /\ self_examples = EmptyDict
  /\ self_variables = EmptyDict
  /\ self_options = EmptyDict
  /\ self_slots = NoSlots
  /\ self_hashtable = NoTable
  /\ call = NoCall
  /\ global_step = 0
  /\ graph = NoGraph
  /\ run = << >>
  /\ runs = 0
  /\ last_state = << >>

\* lr = _SDCAModel(examples, variables, options)
Construct(examples, variables, options) ==
  /\ ~ctor.called
  /\ LET st == SDCAModel_init(examples, variables, options)
     IN  /\ ctor' = [called |-> TRUE, examples |-> examples,
                     variables |-> variables, options |-> options,
                     exc |-> st.exc, warned |-> st.warned,
                     slots_created |-> st.slots # NoSlots,
                     table_created |-> st.hashtable # NoTable]
         /\ self_examples' = st.examples
         /\ self_variables' = st.variables
         /\ self_options' = st.options
         /\ self_slots' = st.slots
         /\ self_hashtable' = st.hashtable
  /\ UNCHANGED << call, trainVars >>

Constructed == ctor.called /\ ctor.exc = "none"

\* The entry points build pure functions of the examples and the current
\* weights, so one call per behaviour covers them.
\* lr.predictions(examples)
Predictions(examples) ==
  /\ Constructed
  /\ call.op = "none"
  /\ call' = [op |-> "predictions", examples |-> examples,
              out |-> predictions(examples, self_variables, self_options)]
  /\ UNCHANGED << ctor, objVars, trainVars >>

\* lr.unregularized_loss(examples)
UnregularizedLoss(examples) ==
  /\ Constructed
  /\ call.op = "none"
  /\ call' = [op |-> "unregularized_loss", examples |-> examples,
              out |-> unregularized_loss(examples, self_variables, self_options)]
  /\ UNCHANGED << ctor, objVars, trainVars >>

\* lr.regularized_loss(examples)
RegularizedLoss(examples) ==
  /\ Constructed
  /\ call.op = "none"
  /\ call' = [op |-> "regularized_loss", examples |-> examples,
              out |-> regularized_loss(examples, self_variables, self_options)]
  /\ UNCHANGED << ctor, objVars, trainVars >>

NextApi ==
  \/ \E e \in CtorExamples, v \in CtorVariables, o \in CtorOptions :
       Construct(e, v, o)
  \/ \E e \in ApiExamples : Predictions(e)
  \/ \E e \in ApiExamples : UnregularizedLoss(e)
  \/ \E e \in ApiExamples : RegularizedLoss(e)

SpecApi == InitApi /\ [][NextApi]_vars

\* ------------------------------------------------------------------------
\* Properties of the constructor and the entry points (SpecApi)
\* ------------------------------------------------------------------------
\* The constructor was called with a loss type, numeric strengths and
\* otherwise well-formed arguments.
NumericStrengths ==
  /\ ctor.called
  /\ DOMAIN ctor.options # {}
  /\ ctor.options["symmetric_l1_regularization"].kind = "num"
  /\ ctor.options["symmetric_l2_regularization"].kind = "num"

OtherArgumentsWellFormed ==
  /\ ctor.examples = DefaultExamples
  /\ ctor.variables = UserVariables

FiveLossTypes ==
  /\ ctor.options["loss_type"].kind = "str"
  /\ ctor.options["loss_type"].val \in
       {"logistic_loss", "squared_loss", "hinge_loss", "smooth_hinge_loss",
        "poisson_loss"}

\* C6: the constructor accepts exactly the five loss types logistic_loss,
\* squared_loss, hinge_loss, smooth_hinge_loss and poisson_loss (with valid
\* other arguments the model is constructed); for any other
\* options['loss_type'] it raises ValueError and no slot variable and no
\* dual-state table has been created.
C6_LossTypeChecked ==
  (ctor.called /\ DOMAIN ctor.options # {}) =>
    /\ ~FiveLossTypes =>
         /\ ctor.exc = "ValueError"
         /\ ~ctor.slots_created /\ ~ctor.table_created
         /\ self_slots = NoSlots /\ self_hashtable = NoTable
    /\ (/\ FiveLossTypes
        /\ OtherArgumentsWellFormed
        /\ NumericStrengths
        /\ ctor.options["symmetric_l2_regularization"].val > 0
        /\ ctor.options["symmetric_l1_regularization"].val >= 0) =>
         /\ ctor.exc = "none"
         /\ ctor.slots_created /\ ctor.table_created

C6_Witness ==
  /\ ctor.called
  /\ ctor.examples = DefaultExamples
  /\ ctor.variables = UserVariables
  /\ DOMAIN ctor.options # {}
  /\ ctor.options["loss_type"].kind = "str"
  /\ ctor.options["loss_type"].val = "absolute_loss"
  /\ ctor.options["symmetric_l2_regularization"].kind = "num"
  /\ ctor.options["symmetric_l2_regularization"].val = Half
  /\ ctor.options["symmetric_l1_regularization"].kind = "num"
  /\ ctor.options["symmetric_l1_regularization"].val = 0
  /\ ctor.exc = "ValueError"
  /\ self_slots = NoSlots

\* C7: with otherwise well-formed arguments the constructor raises ValueError
\* when symmetric_l2_regularization <= 0 or symmetric_l1_regularization < 0,
\* and constructs the model for every l2 > 0 with l1 >= 0; l2 in (0, 1.0]
\* logs the warning and does not fail, l2 > 1.0 logs nothing.
C7_RegularizationChecked ==
  (NumericStrengths /\ FiveLossTypes /\ OtherArgumentsWellFormed) =>
    LET l1 == ctor.options["symmetric_l1_regularization"].val
        l2 == ctor.options["symmetric_l2_regularization"].val
    IN  /\ (l2 <= 0 \/ l1 < 0) => ctor.exc = "ValueError" /\ self_slots = NoSlots
        /\ (l2 > 0 /\ l1 >= 0) =>
             /\ ctor.exc = "none"
             /\ self_slots # NoSlots
             /\ ctor.warned <=> (l2 <= Half)

C7_Witness ==
  /\ NumericStrengths /\ FiveLossTypes /\ OtherArgumentsWellFormed
  /\ ctor.options["symmetric_l2_regularization"].val = 0
  /\ ctor.options["symmetric_l1_regularization"].val = 0
  /\ ctor.exc = "ValueError"

\* The examples of the last call miss a required entry or hold a non-list
\* where a list is required.
RequiredEntries ==
  IF call.op = "predictions"
  THEN {"example_weights", "sparse_features", "dense_features"}
  ELSE {"example_labels", "example_weights", "sparse_features", "dense_features"}

NotWellDefined ==
  \/ \E k \in RequiredEntries : call.examples[k].kind = "None"
  \/ \E k \in {"sparse_features", "dense_features"} : call.examples[k].kind # "list"

\* C8: predictions, unregularized_loss and regularized_loss raise ValueError
\* whenever the examples are not well defined: a required entry is None, or
\* sparse_features or dense_features is not a list.
C8_IllDefinedRaisesValueError ==
  (call.op # "none" /\ NotWellDefined) => call.out.exc = "ValueError"

\* C9: predictions returns the sigmoid of w*x for logistic_loss, the
\* exponential of w*x for poisson_loss, and w*x itself for squared_loss,
\* hinge_loss and smooth_hinge_loss.
C9_PredictionsByLossType ==
  (call.op = "predictions" /\ call.out.exc = "none") =>
    LET wx == linear_predictions(call.examples, self_variables).val
        loss_type == self_options["loss_type"].val
    IN  /\ call.out.val.arg = wx
        /\ loss_type = "logistic_loss" => call.out.val.fn = "sigmoid"
        /\ loss_type = "poisson_loss" => call.out.val.fn = "exp"
        /\ loss_type \in {"squared_loss", "hinge_loss", "smooth_hinge_loss"} =>
             call.out.val.fn = "linear"

C9_Witness ==
  /\ call.op = "predictions"
  /\ call.out.exc = "none"
  /\ self_options["loss_type"].val = "poisson_loss"
  /\ call.out.val.fn = "exp"
  /\ \E e \in DOMAIN call.out.val.arg : call.out.val.arg[e] # R(0)

\* The examples with every missing feature_values replaced by ones.
WithOnes(examples) ==
  [examples EXCEPT !["sparse_features"] =
     ListOf([c \in DOMAIN @.val |->
               IF @.val[c].feature_values.kind = "None"
               THEN [@.val[c] EXCEPT !.feature_values =
                       TensorOf([j \in DOMAIN @.val[c].feature_indices |-> R(1)])]
               ELSE @.val[c]])]

MissingFeatureValues ==
  /\ call.op # "none"
  /\ ~NotWellDefined
  /\ \E c \in DOMAIN call.examples["sparse_features"].val :
       call.examples["sparse_features"].val[c].feature_values.kind = "None"

\* C10: a column built with feature_values=None is accepted by predictions,
\* unregularized_loss and regularized_loss, and each of its entries
\* contributes as if its value were 1.0.
C10_MissingValuesAreOnes ==
  MissingFeatureValues =>
    /\ call.out.exc = "none"
    /\ call.op = "predictions" =>
         call.out = predictions(WithOnes(call.examples), self_variables, self_options)
    /\ call.op = "unregularized_loss" =>
         call.out = unregularized_loss(WithOnes(call.examples), self_variables,
                                       self_options)
    /\ call.op = "regularized_loss" =>
         call.out = regularized_loss(WithOnes(call.examples), self_variables,
                                     self_options)

\* ------------------------------------------------------------------------
\* The dual-state table and the example-id fingerprint
\* ------------------------------------------------------------------------
\* tf.compat.v1.train.sdca_fprint: a 128-bit fingerprint of the example id as
\* two int64; distinct ids have distinct fingerprints and the low word is
\* never 0 or 1 (the empty and deleted keys of the table).
sdca_fprint(example_ids) ==
  [e \in DOMAIN example_ids |-> << 3 * example_ids[e] + 1, example_ids[e] + 2 >>]

\* The shard holding a key.
shard_of(key, num_shards) == (Abs(key[1] + key[2]) % num_shards) + 1

\* _ShardedMutableDenseHashTable.lookup: the stored value, or default_value.
table_lookup(table, keys) ==
  [e \in DOMAIN keys |->
     IF keys[e] \in DOMAIN table[shard_of(keys[e], Len(table))]
     THEN table[shard_of(keys[e], Len(table))][keys[e]]
     ELSE default_value]

\* _ShardedMutableDenseHashTable.insert: stores values[e] under keys[e].
RECURSIVE table_insert(_, _, _)
table_insert(table, keys, values) ==
  IF keys = << >> THEN table
  ELSE table_insert(
         [table EXCEPT ![shard_of(keys[1], Len(table))] = (keys[1] :> values[1]) @@ @],
         Tail(keys), Tail(values))

\* ------------------------------------------------------------------------
\* minimize: routing of feature ids to the partitions of a sparse variable
\* ------------------------------------------------------------------------
\* tf.unique(x)[0]: the distinct values in order of first occurrence.
RECURSIVE Unique(_)
Unique(s) ==
  IF s = << >> THEN << >>
  ELSE LET u == Unique(SubSeq(s, 1, Len(s) - 1))
       IN  IF s[Len(s)] \in Range(u) THEN u ELSE Append(u, s[Len(s)])

\* tf.dynamic_partition(data, partitions, num_partitions), partitions 0-based.
dynamic_partition(data, partitions, num_partitions) ==
  [p \in 1..num_partitions |->
     LET RECURSIVE Pick(_)
         Pick(j) == IF j > Len(data) THEN << >>
                    ELSE IF partitions[j] = p - 1 THEN << data[j] >> \o Pick(j + 1)
                    ELSE Pick(j + 1)
     IN  Pick(1)]

\* tf.dynamic_stitch(indices, data): merged[indices[p][j]] = data[p][j]
\* (indices 0-based).
dynamic_stitch(indices, data) ==
  [i \in 1..Len(Concat(indices)) |->
     LET p == CHOOSE q \in DOMAIN indices : (i - 1) \in Range(indices[q])
         j == CHOOSE k \in DOMAIN indices[p] : indices[p][k] = i - 1
     IN  data[p][j]]

\* _get_first_dimension_size_statically
get_first_dimension_size_statically(w, num_partitions) ==
  LET RECURSIVE Sum(_)
      Sum(p) == IF p = 0 THEN 0 ELSE Len(w[p]) + Sum(p - 1)
  IN  Sum(num_partitions)

\* Variant: the partition is chosen as if every partition held one extra row.
partition_ids_extra_everywhere(w, sparse_idx) ==
  LET num_partitions == Len(w)
      flat_ids == sparse_idx
      num_total_ids == get_first_dimension_size_statically(w, num_partitions)
      ids_per_partition == num_total_ids \div num_partitions
      extras == num_total_ids % num_partitions
      p_assignments == [j \in DOMAIN flat_ids |->
                          flat_ids[j] \div (ids_per_partition + 1)]
      new_ids == [j \in DOMAIN flat_ids |->
                    IF p_assignments[j] < extras
                    THEN flat_ids[j] % (ids_per_partition + 1)
                    ELSE (flat_ids[j] - extras) % ids_per_partition]
  IN  [num_partitions |-> num_partitions,
       p_assignments |-> p_assignments,
       new_ids |-> new_ids,
       gather_ids |-> dynamic_partition(new_ids, p_assignments, num_partitions)]

\* The div-partitioning of minimize for the ids sparse_idx of a variable
\* with partitions w: the partition of every id, its row in that partition,
\* and the rows to gather from / scatter to in every partition.
partition_ids(w, sparse_idx) ==
  LET num_partitions == Len(w)
      flat_ids == sparse_idx
      num_total_ids == get_first_dimension_size_statically(w, num_partitions)
      ids_per_partition == num_total_ids \div num_partitions
      extras == num_total_ids % num_partitions
      p_assignments == [j \in DOMAIN flat_ids |->
                          Max(flat_ids[j] \div (ids_per_partition + 1),
                              (flat_ids[j] - extras) \div ids_per_partition)]
      new_ids == [j \in DOMAIN flat_ids |->
                    IF p_assignments[j] < extras
                    THEN flat_ids[j] % (ids_per_partition + 1)
                    ELSE (flat_ids[j] - extras) % ids_per_partition]
  IN  [num_partitions |-> num_partitions,
       p_assignments |-> p_assignments,
       new_ids |-> new_ids,
       gather_ids |-> dynamic_partition(new_ids, p_assignments, num_partitions)]

\* tf.gather(params, indices), indices 0-based.
gather(params, indices) == [j \in DOMAIN indices |-> params[indices[j] + 1]]

\* Variant: the gathered weights of the partitions are concatenated in
\* partition order instead of being stitched back.
batch_gathered_weights_unstitched(slot, sparse_idx) ==
  IF slot.partitioned
  THEN LET r == partition_ids(slot.parts, sparse_idx)
       IN  Concat([p \in 1..r.num_partitions |->
                     gather(slot.parts[p], r.gather_ids[p])])
  ELSE gather(slot.parts[1], sparse_idx)

\* The weights of the ids sparse_idx handed to the optimizer: gathered per
\* partition and stitched back for a partitioned variable, gathered directly
\* otherwise.
batch_gathered_weights(slot, sparse_idx) ==
  IF slot.partitioned
  THEN LET r == partition_ids(slot.parts, sparse_idx)
           partition_gathered_weights ==
             [p \in 1..r.num_partitions |-> gather(slot.parts[p], r.gather_ids[p])]
           condition_indices ==
             dynamic_partition([j \in DOMAIN r.new_ids |-> j - 1],
                               r.p_assignments, r.num_partitions)
       IN  dynamic_stitch(condition_indices, partition_gathered_weights)
  ELSE gather(slot.parts[1], sparse_idx)

\* tf.scatter_add(ref, indices, updates), indices 0-based; repeated indices
\* accumulate.
RECURSIVE scatter_add(_, _, _)
scatter_add(ref, indices, updates) ==
  IF indices = << >> THEN ref
  ELSE scatter_add([ref EXCEPT ![indices[1] + 1] = RatAdd(@, updates[1])],
                   Tail(indices), Tail(updates))

\* Variant: the update is cut into consecutive pieces, one per partition,
\* instead of being partitioned by the assignments of its ids.
partitioned_update_split(slot, sparse_idx, full_update, p) ==
  LET r == partition_ids(slot.parts, sparse_idx)
      start == Len(Concat([q \in 1..(p - 1) |-> r.gather_ids[q]]))
      updates == SubSeq(full_update, start + 1, start + Len(r.gather_ids[p]))
  IN  scatter_add(slot.parts[p], r.gather_ids[p], updates)

\* _get_partitioned_update_ops: the new value of partition p of a
\* partitioned slot after its scatter_add of the routed part of full_update.
partitioned_update(slot, sparse_idx, full_update, p) ==
  LET r == partition_ids(slot.parts, sparse_idx)
      updates == dynamic_partition(full_update, r.p_assignments, r.num_partitions)
  IN  scatter_add(slot.parts[p], r.gather_ids[p], updates[p])

\* tf.split(u, sizes): the p-th piece of u.
split(u, sizes, p) ==
  LET start == IF p = 1 THEN 0
               ELSE Len(Concat([q \in 1..(p - 1) |-> [j \in 1..sizes[q] |-> 0]]))
  IN  SubSeq(u, start + 1, start + sizes[p])

\* ------------------------------------------------------------------------
\* approximate_duality_gap
\* ------------------------------------------------------------------------
\* _ShardedMutableDenseHashTable.export_sharded()[1]: the values of every
\* shard (here still under their keys).
export_sharded(table) == table

\* tf.math.reduce_sum(tf.cast(values, float64), 0): the sum of the rows of a
\* shard, component by component.
RECURSIVE reduce_sum(_)
reduce_sum(values) ==
  IF DOMAIN values = {} THEN << R(0), R(0), R(0), R(0) >>
  ELSE LET k == CHOOSE x \in DOMAIN values : TRUE
           rest == reduce_sum([x \in DOMAIN values \ {k} |-> values[x]])
       IN  [c \in 1..4 |-> RatAdd(R(values[k][c]), rest[c])]

\* tf.math.add_n(shard_sums)
RECURSIVE add_n(_)
add_n(shard_sums) ==
  IF shard_sums = << >> THEN << R(0), R(0), R(0), R(0) >>
  ELSE LET rest == add_n(Tail(shard_sums))
       IN  [c \in 1..4 |-> RatAdd(shard_sums[1][c], rest[c])]

\* The value returned by approximate_duality_gap for the summed table
\* values (summed_values[1], [2] and [3] of the code are components 2, 3
\* and 4 here).
duality_gap(summed_values, variables, options) ==
  LET primal_loss == summed_values[2]
      dual_loss == summed_values[3]
      example_weights == summed_values[4]
  IN  RatDiv(RatAdd(RatAdd(primal_loss, dual_loss),
                    RatAdd(l1_loss(variables, options),
                           RatMul(R(2), l2_loss(variables, options)))),
             example_weights)

\* ------------------------------------------------------------------------
\* The operations built by minimize and update_weights
\* ------------------------------------------------------------------------
\* An operation is <<kind, variable list, variable, partition>>.
LookupOp == << "lookup", "", 0, 0 >>

ReadDenseOp == << "read_dense", "dense_features_weights", 0, 0 >>

OptimizerOp == << "sdca_optimizer", "", 0, 0 >>

InsertOp == << "insert", "", 0, 0 >>

GlobalStepOp == << "assign_add_global_step", "", 0, 0 >>

GatherOps(slots) ==
  {<< "gather", "sparse_features_weights", v, 0 >> :
     v \in DOMAIN slots["sparse_features_weights"]}

\* One operation of the given kind per partition of every variable of a list.
PartitionOps(kind, name, slots) ==
  UNION {{<< kind, name, v, p >> : p \in DOMAIN slots[name][v].parts} :
         v \in DOMAIN slots[name]}

\* minimize: update_ops, the table insert and the slot updates.
update_ops(slots) ==
  {InsertOp}
  \cup PartitionOps("scatter_add", "sparse_features_weights", slots)
  \cup PartitionOps("assign_add", "dense_features_weights", slots)

\* Variant: the step counter waits for the optimizer only.
global_step_inputs_early(slots) == {OptimizerOp}

\* minimize: with tf.control_dependencies(update_ops) around the increment
\* of global_step.
global_step_inputs(slots) == update_ops(slots)

\* minimize: with tf.control_dependencies([esu]) around the updates, which
\* also consume the outputs of the optimizer.
update_inputs == {OptimizerOp}

\* The operations that have run when the operation returned by minimize has:
\* the group of update_ops, or the increment of global_step behind them.
train_op(slots, use_global_step) ==
  IF use_global_step THEN {GlobalStepOp} ELSE update_ops(slots)

\* Variant: the copies do not wait for train_op.
copy_inputs_none(slots, use_global_step) == {}

\* update_weights: with tf.control_dependencies([train_op]) around the copies.
copy_inputs(slots, use_global_step) == train_op(slots, use_global_step)

copy_ops(slots) ==
  PartitionOps("assign", "sparse_features_weights", slots)
  \cup PartitionOps("assign", "dense_features_weights", slots)

\* Variant: the proximal step does not wait for the copies.
shrink_inputs_none(slots) == {}

\* update_weights: with tf.control_dependencies(update_ops) around the
\* proximal step, update_ops being the copies.
shrink_inputs(slots) == copy_ops(slots)

shrink_ops(slots) ==
  PartitionOps("shrink", "sparse_features_weights", slots)
  \cup PartitionOps("shrink", "dense_features_weights", slots)

\* Variant: minimize also copies the slots to the primary variables.
minimize_ops_with_copies(slots, use_global_step) ==
  {LookupOp, ReadDenseOp, OptimizerOp}
  \cup GatherOps(slots)
  \cup update_ops(slots)
  \cup (IF use_global_step THEN {GlobalStepOp} ELSE {})
  \cup copy_ops(slots)

\* Every operation run for the operation returned by minimize.
minimize_ops(slots, use_global_step) ==
  {LookupOp, ReadDenseOp, OptimizerOp}
  \cup GatherOps(slots)
  \cup update_ops(slots)
  \cup (IF use_global_step THEN {GlobalStepOp} ELSE {})

\* Every operation run for the operation returned by update_weights(train_op).
update_weights_ops(slots, options, use_global_step) ==
  minimize_ops(slots, use_global_step)
  \cup copy_ops(slots)
  \cup (IF symmetric_l1_regularization(options) > 0 THEN shrink_ops(slots) ELSE {})

\* approximate_duality_gap: one sum per shard of the table, each under
\* tf.control_dependencies of the sums before it, and the gap from all of them.
ShardSumOp(s) == << "reduce_sum", "", 0, s >>

GapOp == << "approximate_duality_gap", "", 0, 0 >>

shard_sum_inputs(s) == {ShardSumOp(t) : t \in 1..(s - 1)}

gap_inputs(table) == {ShardSumOp(s) : s \in DOMAIN table}

approximate_duality_gap_ops(table) == gap_inputs(table) \cup {GapOp}

\* Variant: the shrinkage is subtracted without restoring the sign.
proximal_unsigned(v, options) ==
  RatMax(R(0),
         RatSub(RatAbs(v), Rat(symmetric_l1_regularization(options),
                               symmetric_l2_regularization(options))))

\* update_weights: sign(v) * max(0, |v| - l1 / l2).
proximal(v, options) ==
  RatMul(RatSign(v),
         RatMax(R(0),
                RatSub(RatAbs(v), Rat(symmetric_l1_regularization(options),
                                      symmetric_l2_regularization(options)))))

\* ------------------------------------------------------------------------
\* Execution of the operations (session.run)
\* ------------------------------------------------------------------------
\* Most executions started, and number of distinct results of the native
\* optimizer tried per batch.
MaxRuns == 2

MaxOutcome == 2

Idle == [target |-> "idle"]

sparse_indices(examples) ==
  [v \in DOMAIN examples["sparse_features"].val |->
     Unique(examples["sparse_features"].val[v].feature_indices)]

\* The native optimizer (gen_sdca_ops.sdca_optimizer_v2): its k-th result for
\* a batch, one dual-state row per example, one delta per gathered sparse
\* weight and per dense weight.
sdca_optimizer(k, examples, dense_weights) ==
  LET delta == IF k % 2 = 1 THEN -((k + 1) \div 2) ELSE k \div 2
      example_ids == examples["example_ids"].val
  IN  [esu |-> [e \in DOMAIN example_ids |->
                  << k, k + example_ids[e], e,
                     examples["example_weights"].val[e][1] >>],
       sfw |-> [v \in DOMAIN sparse_indices(examples) |->
                  [j \in DOMAIN sparse_indices(examples)[v] |-> R(delta * j)]],
       dfw |-> [v \in DOMAIN dense_weights |->
                  [i \in DOMAIN dense_weights[v] |-> R(-(delta * i))]]]

TargetOps(w) ==
  IF run[w].target = "minimize"
  THEN minimize_ops(self_slots, graph.use_global_step)
  ELSE IF run[w].target = "update_weights"
  THEN update_weights_ops(self_slots, self_options, graph.use_global_step)
  ELSE approximate_duality_gap_ops(self_hashtable)

\* The operation is part of the execution, has not run, and its inputs have.
Ready(w, op, inputs) ==
  /\ w \in DOMAIN run
  /\ run[w].target # "idle"
  /\ op \in TargetOps(w)
  /\ op \notin run[w].done
  /\ inputs \subseteq run[w].done

Done(w, op) == [run EXCEPT ![w].done = @ \cup {op}]

\* session.run(min_op) or session.run(opt_op) with a batch fed.
StartRun(w, target, examples) ==
  /\ graph.built
  /\ w \in DOMAIN run
  /\ run[w].target = "idle"
  /\ runs < MaxRuns
  /\ runs' = runs + 1
  /\ run' = [run EXCEPT ![w] =
       [target |-> target, examples |-> examples, done |-> {},
        example_state_data |-> << >>,
        sparse_weights |-> [v \in DOMAIN self_slots["sparse_features_weights"] |-> << >>],
        dense_weights |-> << >>,
        esu |-> << >>, sfw |-> << >>, dfw |-> << >>,
        shard_sums |-> << >>, gap |-> << >>, started |-> runs + 1,
        before |-> [variables |-> self_variables, slots |-> self_slots,
                    hashtable |-> self_hashtable, global_step |-> global_step,
                    last_state |-> last_state]]]
  /\ UNCHANGED << ctor, objVars, call, global_step, graph, last_state >>

\* example_state_data = self._hashtable.lookup(example_ids_hashed)
Lookup(w) ==
  /\ Ready(w, LookupOp, {})
  /\ run' = [Done(w, LookupOp) EXCEPT ![w].example_state_data =
               table_lookup(self_hashtable,
                            sdca_fprint(run[w].examples["example_ids"].val))]
  /\ UNCHANGED << ctor, objVars, call, global_step, graph, runs, last_state >>

\* The gathered weights of sparse variable v.
Gather(w, v) ==
  /\ v \in DOMAIN self_slots["sparse_features_weights"]
  /\ Ready(w, << "gather", "sparse_features_weights", v, 0 >>, {})
  /\ run' = [Done(w, << "gather", "sparse_features_weights", v, 0 >>)
               EXCEPT ![w].sparse_weights[v] =
                 batch_gathered_weights(self_slots["sparse_features_weights"][v],
                                        sparse_indices(run[w].examples)[v])]
  /\ UNCHANGED << ctor, objVars, call, global_step, graph, runs, last_state >>

\* self._convert_n_to_tensor(self._slots['unshrunk_dense_features_weights'])
ReadDense(w) ==
  /\ Ready(w, ReadDenseOp, {})
  /\ run' = [Done(w, ReadDenseOp) EXCEPT ![w].dense_weights =
               convert_n_to_tensor(self_slots["dense_features_weights"])]
  /\ UNCHANGED << ctor, objVars, call, global_step, graph, runs, last_state >>

\* esu, sfw, dfw = gen_sdca_ops.sdca_optimizer_v2(...)
SdcaOptimizer(w, k) ==
  /\ Ready(w, OptimizerOp, {LookupOp, ReadDenseOp} \cup GatherOps(self_slots))
  /\ LET out == sdca_optimizer(k, run[w].examples, run[w].dense_weights)
     IN  run' = [Done(w, OptimizerOp) EXCEPT ![w].esu = out.esu,
                                            ![w].sfw = out.sfw,
                                            ![w].dfw = out.dfw]
  /\ UNCHANGED << ctor, objVars, call, global_step, graph, runs, last_state >>

\* The dual state last returned for every example id, kept beside the table.
RECURSIVE record_states(_, _, _)
record_states(m, example_ids, values) ==
  IF example_ids = << >> THEN m
  ELSE record_states((example_ids[1] :> values[1]) @@ m,
                     Tail(example_ids), Tail(values))

\* Variant: the state read from the table is written back.
insert_values_stale(r) == r.example_state_data

\* The values stored by self._hashtable.insert(example_ids_hashed, esu).
insert_values(r) == r.esu

\* update_ops = [self._hashtable.insert(example_ids_hashed, esu)]
Insert(w) ==
  /\ Ready(w, InsertOp, update_inputs)
  /\ self_hashtable' =
       table_insert(self_hashtable,
                    sdca_fprint(run[w].examples["example_ids"].val),
                    insert_values(run[w]))
  /\ last_state' = record_states(last_state, run[w].examples["example_ids"].val,
                                  run[w].esu)
  /\ run' = Done(w, InsertOp)
  /\ UNCHANGED << ctor, self_examples, self_variables, self_options, self_slots,
                  call, global_step, graph, runs >>

\* Variant: an update adds to the value the variable had when the worker's
\* run started.
updated_variable_at_start(w, name, v) == run[w].before.slots[name][v]

\* scatter_add and assign_add are atomic read-modify-writes of the variable:
\* they add to its value at the time they run.
updated_variable(w, name, v) == self_slots[name][v]

\* The scatter_add of partition p of sparse slot v: routed through
\* _get_partitioned_update_ops for a partitioned slot, direct otherwise.
ScatterAdd(w, v, p) ==
  /\ v \in DOMAIN self_slots["sparse_features_weights"]
  /\ p \in DOMAIN self_slots["sparse_features_weights"][v].parts
  /\ Ready(w, << "scatter_add", "sparse_features_weights", v, p >>, update_inputs)
  /\ LET slot == updated_variable(w, "sparse_features_weights", v)
         i == sparse_indices(run[w].examples)[v]
         u == run[w].sfw[v]
     IN  self_slots' =
           [self_slots EXCEPT !["sparse_features_weights"][v].parts[p] =
              IF slot.partitioned THEN partitioned_update(slot, i, u, p)
              ELSE scatter_add(slot.parts[1], i, u)]
  /\ run' = Done(w, << "scatter_add", "sparse_features_weights", v, p >>)
  /\ UNCHANGED << ctor, self_examples, self_variables, self_options,
                  self_hashtable, call, global_step, graph, runs, last_state >>

\* The assign_add of partition p of dense slot v: of its piece of the split
\* update for a partitioned slot, of the whole update otherwise.
AssignAdd(w, v, p) ==
  /\ v \in DOMAIN self_slots["dense_features_weights"]
  /\ p \in DOMAIN self_slots["dense_features_weights"][v].parts
  /\ Ready(w, << "assign_add", "dense_features_weights", v, p >>, update_inputs)
  /\ LET slot == updated_variable(w, "dense_features_weights", v)
         u == run[w].dfw[v]
         split_update ==
           IF slot.partitioned
           THEN split(u, [q \in DOMAIN slot.parts |-> Len(slot.parts[q])], p)
           ELSE u
     IN  self_slots' =
           [self_slots EXCEPT !["dense_features_weights"][v].parts[p] =
              AddVec(slot.parts[p], split_update)]
  /\ run' = Done(w, << "assign_add", "dense_features_weights", v, p >>)
  /\ UNCHANGED << ctor, self_examples, self_variables, self_options,
                  self_hashtable, call, global_step, graph, runs, last_state >>

\* tf.compat.v1.assign_add(global_step, 1)
IncrementGlobalStep(w) ==
  /\ graph.use_global_step
  /\ Ready(w, GlobalStepOp, global_step_inputs(self_slots))
  /\ global_step' = global_step + 1
  /\ run' = Done(w, GlobalStepOp)
  /\ UNCHANGED << ctor, objVars, call, graph, runs, last_state >>

\* update_weights: v.assign(sv), the copy of a slot to its primary variable.
CopySlot(w, name, v, p) ==
  /\ v \in DOMAIN self_slots[name]
  /\ p \in DOMAIN self_slots[name][v].parts
  /\ Ready(w, << "assign", name, v, p >>,
           copy_inputs(self_slots, graph.use_global_step))
  /\ self_variables' =
       [self_variables EXCEPT ![name].val[v].parts[p] = self_slots[name][v].parts[p]]
  /\ run' = Done(w, << "assign", name, v, p >>)
  /\ UNCHANGED << ctor, self_examples, self_options, self_slots, self_hashtable,
                  call, global_step, graph, runs, last_state >>

\* update_weights: v.assign(sign(v) * max(0, |v| - shrinkage)), the proximal
\* step on one primary variable.
Shrink(w, name, v, p) ==
  /\ v \in DOMAIN self_slots[name]
  /\ p \in DOMAIN self_slots[name][v].parts
  /\ Ready(w, << "shrink", name, v, p >>, shrink_inputs(self_slots))
  /\ self_variables' =
       [self_variables EXCEPT ![name].val[v].parts[p] =
          [r \in DOMAIN @ |-> proximal(@[r], self_options)]]
  /\ run' = Done(w, << "shrink", name, v, p >>)
  /\ UNCHANGED << ctor, self_examples, self_options, self_slots, self_hashtable,
                  call, global_step, graph, runs, last_state >>

\* The sum of the values of shard s of the table.
ShardSum(w, s) ==
  /\ Ready(w, ShardSumOp(s), shard_sum_inputs(s))
  /\ run' = [Done(w, ShardSumOp(s)) EXCEPT ![w].shard_sums =
               Append(@, reduce_sum(export_sharded(self_hashtable)[s]))]
  /\ UNCHANGED << ctor, objVars, call, global_step, graph, runs, last_state >>

\* The gap from the sums of all shards and the regularization losses of the
\* primary variables.
DualityGap(w) ==
  /\ Ready(w, GapOp, gap_inputs(self_hashtable))
  /\ run' = [Done(w, GapOp) EXCEPT ![w].gap =
               duality_gap(add_n(run[w].shard_sums), self_variables, self_options)]
  /\ UNCHANGED << ctor, objVars, call, global_step, graph, runs, last_state >>

Finished(w) ==
  /\ w \in DOMAIN run
  /\ run[w].target # "idle"
  /\ run[w].done = TargetOps(w)

\* session.run returns.
FinishRun(w) ==
  /\ Finished(w)
  /\ run' = [run EXCEPT ![w] = Idle]
  /\ UNCHANGED << ctor, objVars, call, global_step, graph, runs, last_state >>

\* ------------------------------------------------------------------------
\* Specification of training: one worker running the operations returned by
\* minimize and update_weights on a constructed model
\* ------------------------------------------------------------------------
\* Batches fed to the examples of the model: three example ids, one of them in
\* both batches; repeated, unordered and absent feature ids.
TrainBatches ==
  {Batch(<< 1, 2 >>,
         SparseFeatureColumn(<< << 0, 0 >>, << 1, 2 >> >>, TensorOf(<< R(1), R(1) >>)),
         SparseFeatureColumn(<< << 0, 1 >>, << 1, 0 >> >>, NoneVal)),
   Batch(<< 3, 2 >>,
         SparseFeatureColumn(<< << 0, 2 >>, << 0, 2 >>, << 1, 1 >> >>,
                             TensorOf(<< R(1), R(1), R(2) >>)),
         SparseFeatureColumn(<< >>, TensorOf(<< >>)))}

\* Regularization strengths (in halves), table shards and step counter of the
\* trained models.
TrainConfigs ==
  {[l1 |-> 0, l2 |-> 2, shards |-> 1, use_global_step |-> FALSE],
   [l1 |-> 1, l2 |-> 2, shards |-> 1, use_global_step |-> TRUE],
   [l1 |-> 1, l2 |-> 3, shards |-> 2, use_global_step |-> FALSE],
   [l1 |-> 2, l2 |-> 1, shards |-> 2, use_global_step |-> TRUE]}

TrainOptions(c) ==
  IF c.shards = 1
  THEN [loss_type |-> StrOf("logistic_loss"),
        symmetric_l1_regularization |-> NumOf(c.l1),
        symmetric_l2_regularization |-> NumOf(c.l2)]
  ELSE [loss_type |-> StrOf("squared_loss"),
        symmetric_l1_regularization |-> NumOf(c.l1),
        symmetric_l2_regularization |-> NumOf(c.l2),
        num_table_shards |-> NumOf(c.shards)]

Init ==
  \E c \in TrainConfigs :
    LET options == TrainOptions(c)
        use_global_step == c.use_global_step
        st == SDCAModel_init(DefaultExamples, UserVariables, options)
    IN  /\ ctor = [called |-> TRUE, examples |-> DefaultExamples,
                   variables |-> UserVariables, options |-> options,
                   exc |-> st.exc, warned |-> st.warned,
                   slots_created |-> st.slots # NoSlots,
                   table_created |-> st.hashtable # NoTable]
        /\ self_examples = st.examples
        /\ self_variables = st.variables
        /\ self_options = st.options
        /\ self_slots = st.slots
        /\ self_hashtable = st.hashtable
        /\ call = NoCall
        /\ global_step = 0
        /\ graph = [built |-> TRUE, use_global_step |-> use_global_step]
        /\ run = [w \in {1} |-> Idle]
        /\ runs = 0
        /\ last_state = << >>

\* The workers that may run the operations; those of a behaviour are the
\* domain of run.
Workers == {1, 2}

WeightLists == {"sparse_features_weights", "dense_features_weights"}

\* Nothing is fed when the gap is evaluated.
NoFeed == << >>

TableShards == UNION {1..c.shards : c \in TrainConfigs}

Layout(name) == IF name = "sparse_features_weights" THEN SparseLayout ELSE DenseLayout

Next ==
  \/ \E w \in Workers, target \in {"minimize", "update_weights"},
        examples \in TrainBatches : StartRun(w, target, examples)
  \/ \E w \in Workers : Lookup(w)
  \/ \E w \in Workers, v \in DOMAIN SparseLayout : Gather(w, v)
  \/ \E w \in Workers : ReadDense(w)
  \/ \E w \in Workers, k \in 1..MaxOutcome : SdcaOptimizer(w, k)
  \/ \E w \in Workers : Insert(w)
  \/ \E w \in Workers, v \in DOMAIN SparseLayout :
       \E p \in DOMAIN SparseLayout[v].rows : ScatterAdd(w, v, p)
  \/ \E w \in Workers, v \in DOMAIN DenseLayout :
       \E p \in DOMAIN DenseLayout[v].rows : AssignAdd(w, v, p)
  \/ \E w \in Workers : IncrementGlobalStep(w)
  \/ \E w \in Workers, name \in WeightLists :
       \E v \in DOMAIN Layout(name) :
         \E p \in DOMAIN Layout(name)[v].rows : CopySlot(w, name, v, p)
  \/ \E w \in Workers, name \in WeightLists :
       \E v \in DOMAIN Layout(name) :
         \E p \in DOMAIN Layout(name)[v].rows : Shrink(w, name, v, p)
  \/ \E w \in Workers : FinishRun(w)

Spec == Init /\ [][Next]_vars

\* Training steps and evaluations of the duality gap, by one worker.
InitGap == Init

NextGap ==
  \/ \E w \in Workers, examples \in TrainBatches : StartRun(w, "minimize", examples)
  \/ \E w \in Workers : Lookup(w)
  \/ \E w \in Workers, v \in DOMAIN SparseLayout : Gather(w, v)
  \/ \E w \in Workers : ReadDense(w)
  \/ \E w \in Workers, k \in 1..MaxOutcome : SdcaOptimizer(w, k)
  \/ \E w \in Workers : Insert(w)
  \/ \E w \in Workers, v \in DOMAIN SparseLayout :
       \E p \in DOMAIN SparseLayout[v].rows : ScatterAdd(w, v, p)
  \/ \E w \in Workers, v \in DOMAIN DenseLayout :
       \E p \in DOMAIN DenseLayout[v].rows : AssignAdd(w, v, p)
  \/ \E w \in Workers : IncrementGlobalStep(w)
  \/ \E w \in Workers : StartRun(w, "approximate_duality_gap", NoFeed)
  \/ \E w \in Workers, s \in TableShards : ShardSum(w, s)
  \/ \E w \in Workers : DualityGap(w)
  \/ \E w \in Workers : FinishRun(w)

SpecGap == InitGap /\ [][NextGap]_vars

\* ------------------------------------------------------------------------
\* Properties of training (Spec)
\* ------------------------------------------------------------------------
\* Worker w is running the operation returned by minimize or update_weights
\* (the latter runs the former first).
Running(w) == run[w].target \in {"minimize", "update_weights"}

OpsOfKind(w, kinds) == {op \in TargetOps(w) : op[1] \in kinds}

MinimizeKinds ==
  {"lookup", "gather", "read_dense", "sdca_optimizer", "insert", "scatter_add",
   "assign_add", "assign_add_global_step"}

SlotUpdateKinds == {"insert", "scatter_add", "assign_add"}

\* The positions <<list, variable, partition, row>> of the weights.
WeightPositions ==
  UNION {UNION {UNION {{<< name, v, p, r >> :
                         r \in DOMAIN self_slots[name][v].parts[p]} :
                       p \in DOMAIN self_slots[name][v].parts} :
                v \in DOMAIN self_slots[name]} :
         name \in {"sparse_features_weights", "dense_features_weights"}}

Primary(pos) == self_variables[pos[1]].val[pos[2]].parts[pos[3]][pos[4]]

Slot(pos) == self_slots[pos[1]][pos[2]].parts[pos[3]][pos[4]]

\* sign(s) * max(0, |s| - l1 / l2) for s = n / d, or s itself when l1 = 0.
Shrunk(s) ==
  LET l1 == self_options["symmetric_l1_regularization"].val
      l2 == self_options["symmetric_l2_regularization"].val
      excess == Abs(s[1]) * l2 - l1 * s[2]
  IN  IF l1 = 0 THEN s
      ELSE IF excess <= 0 THEN R(0)
      ELSE IF s[1] < 0 THEN Rat(-excess, s[2] * l2)
      ELSE Rat(excess, s[2] * l2)

\* C1: after the operation returned by update_weights(train_op) has run,
\* every element of every partition of every primary weight variable is the
\* proximal shrinkage of the same element of its unshrunk slot:
\* sign(s) * max(0, |s| - l1 / l2) when l1 > 0, and s when l1 = 0.
C1_ProximalStep ==
  \A w \in DOMAIN run :
    (Finished(w) /\ run[w].target = "update_weights") =>
      \A pos \in WeightPositions : Primary(pos) = Shrunk(Slot(pos))

C1_Witness ==
  \E w \in DOMAIN run :
    /\ Finished(w) /\ run[w].target = "update_weights"
    /\ self_options["symmetric_l1_regularization"].val > 0
    /\ \E pos \in WeightPositions :
         /\ Slot(pos)[1] < 0
         /\ Primary(pos) # R(0)
         /\ Primary(pos) # Slot(pos)
    /\ \E pos \in WeightPositions : Slot(pos) # R(0) /\ Primary(pos) = R(0)

\* C2: in one run of the operation returned by minimize the table insert and
\* every unshrunk-weight update run only after the native optimizer has;
\* when global_step is given it is incremented by exactly 1 per run, after
\* all of those updates; when global_step is None no counter changes.
C2_MinimizeOrder ==
  \A w \in DOMAIN run :
    Running(w) =>
      /\ (OpsOfKind(w, SlotUpdateKinds) \cap run[w].done # {}) =>
           OptimizerOp \in run[w].done
      /\ GlobalStepOp \in run[w].done =>
           OpsOfKind(w, SlotUpdateKinds) \subseteq run[w].done
      /\ global_step = run[w].before.global_step
                       + (IF GlobalStepOp \in run[w].done THEN 1 ELSE 0)
      /\ Finished(w) =>
           global_step = run[w].before.global_step
                         + (IF graph.use_global_step THEN 1 ELSE 0)

C2_Witness ==
  \E w \in DOMAIN run :
    /\ Running(w)
    /\ graph.use_global_step
    /\ GlobalStepOp \in run[w].done
    /\ global_step = 2

\* Example ids of the batches.
ExampleIds == UNION {Range(b["example_ids"].val) : b \in TrainBatches}

\* The table maps the hashed example id to the value in exactly one shard.
Maps(table, example_id, value) ==
  LET key == << 3 * example_id + 1, example_id + 2 >>
  IN  /\ \E s \in DOMAIN table : key \in DOMAIN table[s] /\ table[s][key] = value
      /\ \A s \in DOMAIN table : key \in DOMAIN table[s] => table[s][key] = value

Absent(table, example_id) ==
  \A s \in DOMAIN table : << 3 * example_id + 1, example_id + 2 >> \notin DOMAIN table[s]

\* C3: after the insert of a minimize step the table maps the hashed id of
\* every example of the batch to the 4-tuple the optimizer returned for it
\* in that step; the entries of the other example ids are unchanged; the
\* lookup of a later step reads back the 4-tuple last returned for the
\* example id, and [0, 0, 0, 0] for an example id never processed.
C3_DualStatePersisted ==
  \A w \in DOMAIN run :
    Running(w) =>
      LET example_ids == run[w].examples["example_ids"].val
      IN  /\ InsertOp \in run[w].done =>
               \A e \in DOMAIN example_ids :
                 Maps(self_hashtable, example_ids[e], run[w].esu[e])
          /\ \A id \in ExampleIds \ Range(example_ids) :
               \/ Absent(self_hashtable, id) /\ Absent(run[w].before.hashtable, id)
               \/ \E t \in {run[w].before.last_state[i] :
                              i \in DOMAIN run[w].before.last_state} :
                    Maps(self_hashtable, id, t) /\ Maps(run[w].before.hashtable, id, t)
          /\ LookupOp \in run[w].done =>
               \A e \in DOMAIN example_ids :
                 run[w].example_state_data[e] =
                   IF example_ids[e] \in DOMAIN run[w].before.last_state
                   THEN run[w].before.last_state[example_ids[e]]
                   ELSE << 0, 0, 0, 0 >>

C3_Witness ==
  \E w \in DOMAIN run :
    /\ Running(w)
    /\ InsertOp \in run[w].done
    /\ \E e1, e2 \in DOMAIN run[w].example_state_data :
         /\ run[w].example_state_data[e1] = << 0, 0, 0, 0 >>
         /\ run[w].example_state_data[e2] # << 0, 0, 0, 0 >>
         /\ run[w].example_state_data[e2] # run[w].esu[e2]
    /\ \E id \in ExampleIds \ Range(run[w].examples["example_ids"].val) :
         ~Absent(self_hashtable, id)

\* ref with updates[j] added to row indices[j], for every j.
FullScatterAdd(ref, indices, updates) ==
  [i \in DOMAIN ref |->
     RatAdd(ref[i],
            RatSum([j \in DOMAIN indices |->
                      IF indices[j] = i - 1 THEN updates[j] ELSE R(0)]))]

Concatenated(variable) == Concat(variable.parts)

\* The unshrunk slots hold their values of the start of the run plus the
\* deltas the optimizer returned.
SlotsUpdated(w) ==
  /\ \A v \in DOMAIN self_slots["sparse_features_weights"] :
       Concatenated(self_slots["sparse_features_weights"][v]) =
         FullScatterAdd(
           Concatenated(run[w].before.slots["sparse_features_weights"][v]),
           Unique(run[w].examples["sparse_features"].val[v].feature_indices),
           run[w].sfw[v])
  /\ \A v \in DOMAIN self_slots["dense_features_weights"] :
       Concatenated(self_slots["dense_features_weights"][v]) =
         [i \in DOMAIN run[w].dfw[v] |->
            RatAdd(Concatenated(run[w].before.slots["dense_features_weights"][v])[i],
                   run[w].dfw[v][i])]

C5_UpdateWeightsOrder ==
  \A w \in DOMAIN run :
    Running(w) =>
      /\ (OpsOfKind(w, {"assign"}) \cap run[w].done # {}) =>
           OpsOfKind(w, MinimizeKinds) \subseteq run[w].done
      /\ (OpsOfKind(w, {"shrink"}) \cap run[w].done # {}) =>
           OpsOfKind(w, {"assign"}) \subseteq run[w].done
      /\ \A op \in OpsOfKind(w, {"assign"}) \cap run[w].done :
           op \notin {<< "assign", s[2], s[3], s[4] >> :
                        s \in OpsOfKind(w, {"shrink"}) \cap run[w].done} =>
             self_variables[op[2]].val[op[3]].parts[op[4]] =
               self_slots[op[2]][op[3]].parts[op[4]]

C5_Witness ==
  \E w \in DOMAIN run :
    /\ Running(w)
    /\ OpsOfKind(w, {"shrink"}) \cap run[w].done # {}
    /\ ~(OpsOfKind(w, {"shrink"}) \subseteq run[w].done)
    /\ runs = 2

\* ------------------------------------------------------------------------
\* approximate_duality_gap (Spec)
\* ------------------------------------------------------------------------
\* The sum of component c of the rows (a map from example id to 4-tuple).
RECURSIVE SumOfComponent(_, _)
SumOfComponent(rows, c) ==
  IF DOMAIN rows = {} THEN 0
  ELSE LET id == CHOOSE x \in DOMAIN rows : TRUE
       IN  rows[id][c] + SumOfComponent([x \in DOMAIN rows \ {id} |-> rows[x]], c)

\* (P + D + l1_loss + 2 * l2_loss) / W for the rows last stored per example.
ExpectedGap ==
  RatDiv(RatAdd(R(SumOfComponent(last_state, 2) + SumOfComponent(last_state, 3)),
                RatAdd(l1_loss(self_variables, self_options),
                       RatMul(R(2), l2_loss(self_variables, self_options)))),
         R(SumOfComponent(last_state, 4)))

\* The rows stored in a table of another number of shards.
RECURSIVE Reshard(_, _)
Reshard(table, rows) ==
  IF DOMAIN rows = {} THEN table
  ELSE LET id == CHOOSE x \in DOMAIN rows : TRUE
       IN  Reshard(table_insert(table, sdca_fprint(<< id >>), << rows[id] >>),
                   [x \in DOMAIN rows \ {id} |-> rows[x]])

GapOf(table) ==
  duality_gap(add_n([s \in DOMAIN table |-> reduce_sum(export_sharded(table)[s])]),
              self_variables, self_options)

ShardCounts == {1, 2, 3}

GapEvaluated(w) ==
  run[w].target = "approximate_duality_gap" /\ GapOp \in run[w].done

GapIsSumOverTable ==
  \A w \in DOMAIN run : GapEvaluated(w) => run[w].gap = ExpectedGap

GapSameForEveryShardCount ==
  \A w \in DOMAIN run :
    GapEvaluated(w) =>
      \A n \in ShardCounts :
        GapOf(Reshard(ShardedTable(n), last_state)) = run[w].gap

GapIsNaNWithoutWeights ==
  \A w \in DOMAIN run :
    (GapEvaluated(w) /\ SumOfComponent(last_state, 4) = 0) => run[w].gap = NaN

\* C11: approximate_duality_gap is (P + D + l1_loss + 2 * l2_loss) / W with
\* P, D and W the sums of the primal loss, dual loss and example weight over
\* all entries of all shards of the table; it is the same for every number
\* of table shards; it is NaN when no example has been processed or all
\* example weights are 0.
C11_ApproximateDualityGap ==
  /\ GapIsSumOverTable
  /\ GapSameForEveryShardCount
  /\ GapIsNaNWithoutWeights

\* ------------------------------------------------------------------------
\* The autoregressive time-series model (ARModel, LSTMAutoRegressor), as
\* exercised by ar_model_test.py
\* ------------------------------------------------------------------------
\* x[-n:] of Python: the last n elements, all of x for n = 0 or n > len(x).
TailSlice(x, n) ==
  IF n = 0 \/ n > Len(x) THEN x ELSE SubSeq(x, Len(x) - n + 1, Len(x))

\* x[a:b] of Python for 0 <= a <= b (clipped to the length of x).
Slice(x, a, b) == SubSeq(x, a + 1, IF b > Len(x) THEN Len(x) ELSE b)

\* ARModel.__init__: window_size = input_window_size + output_window_size.
ARModel(input_window_size, output_window_size, num_features) ==
  [input_window_size |-> input_window_size,
   output_window_size |-> output_window_size,
   window_size |-> input_window_size + output_window_size,
   num_features |-> num_features]

\* The error of define_loss in TRAIN mode for a window of the wrong length.
WrongWindowSize(model) ==
  [exc |-> "ValueError", msg |-> "set window_size=", window_size |-> model.window_size]

\* The error of define_loss in EVAL mode for a window that is too short.
WindowTooShort(model) ==
  [exc |-> "ValueError", msg |-> "requires a window of at least",
   window_size |-> model.window_size]

\* ARModel._process_window on one window of window_size times of every
\* series of the batch: the first input_window_size steps are the input, one
\* prediction is made for each of the output_window_size steps after them.
process_window(model, times) ==
  [b \in DOMAIN times |->
     [j \in 1..model.output_window_size |->
        [time |-> times[b][model.input_window_size + j],
         input |-> SubSeq(times[b], 1, model.input_window_size)]]]

\* Variant: the evaluated series is cropped at its end instead of its start.
crop_oldest(feature_value, crop_length) ==
  [b \in DOMAIN feature_value |-> Slice(feature_value[b], 0, crop_length)]

\* define_loss, EVAL: feature_value[:, -crop_length:]
crop(feature_value, crop_length) ==
  [b \in DOMAIN feature_value |-> TailSlice(feature_value[b], crop_length)]

\* The loop of define_loss in EVAL mode: the predictions of the windows
\* starting at base_offset = iteration_number * output_window_size,
\* concatenated along the time axis.
RECURSIVE eval_windows(_, _, _, _)
eval_windows(model, times, iteration_number, num_iterations) ==
  IF iteration_number >= num_iterations
  THEN [b \in DOMAIN times |-> << >>]
  ELSE LET base_offset == iteration_number * model.output_window_size
           window == [b \in DOMAIN times |->
                        Slice(times[b], base_offset, base_offset + model.window_size)]
           outputs == process_window(model, window)
           later == eval_windows(model, times, iteration_number + 1, num_iterations)
       IN  [b \in DOMAIN times |-> outputs[b] \o later[b]]

\* Variant: training accepts every window that is long enough.
train_window_mismatch_short_only(model, static_window_size) ==
  static_window_size < model.window_size

\* define_loss, TRAIN: the window must be exactly window_size long.
train_window_mismatch(model, static_window_size) ==
  static_window_size # model.window_size

\* ARModel.define_loss(features, mode) for features of the static shape
\* (batch, window); times is the TIMES feature.
define_loss(model, times, mode) ==
  LET static_window_size == Len(times[1])
  IN  IF mode = "train"
      THEN IF train_window_mismatch(model, static_window_size)
           THEN WrongWindowSize(model)
           ELSE LET outputs == process_window(model, times)
                IN  [exc |-> "none",
                     prediction_times |->
                       [b \in DOMAIN times |->
                          SubSeq(times[b], model.input_window_size + 1,
                                 Len(times[b]))],
                     predictions |-> outputs,
                     shape |-> << Len(times), Len(outputs[1]), model.num_features >>]
      ELSE IF static_window_size < model.window_size
           THEN WindowTooShort(model)
           ELSE LET num_iterations ==
                      (static_window_size - model.input_window_size)
                        \div model.output_window_size
                    output_size == num_iterations * model.output_window_size
                    crop_length == output_size + model.input_window_size
                    cropped == crop(times, crop_length)
                    outputs == eval_windows(model, cropped, 0, num_iterations)
                IN  [exc |-> "none",
                     prediction_times |->
                       [b \in DOMAIN times |-> TailSlice(times[b], output_size)],
                     predictions |-> outputs,
                     shape |-> << Len(times), Len(outputs[1]), model.num_features >>]

\* Largest input and output window sizes of the models, longest series fed,
\* most training steps of an estimator.
MaxInputWindow == 2

MaxOutputWindow == 2

MaxSeriesLen == 6

MaxSteps == 2

\* The TIMES feature of a batch of one or two series of the given length
\* (strictly increasing times, not evenly spaced).
TimesFeatures ==
  UNION {{<< [t \in 1..len |-> 2 * t - 1 + (IF t = len THEN 2 ELSE 0)] >>,
          << [t \in 1..len |-> t - 1], [t \in 1..len |-> 10 + 3 * t] >>} :
         len \in 1..MaxSeriesLen}

\* model = ar_model.ARModel(input_window_size=.., output_window_size=..,
\* num_features=1)
ConstructARModel(input_window_size, output_window_size) ==
  /\ ~ctor.called
  /\ ctor' = [called |-> TRUE, class |-> "ARModel",
              model |-> ARModel(input_window_size, output_window_size, 1)]
  /\ UNCHANGED << objVars, call, trainVars >>

\* estimator = LSTMAutoRegressor(input_window_size=.., output_window_size=..,
\* num_features=1)
ConstructLSTMAutoRegressor(input_window_size, output_window_size) ==
  /\ ~ctor.called
  /\ ctor' = [called |-> TRUE, class |-> "LSTMAutoRegressor",
              model |-> ARModel(input_window_size, output_window_size, 1)]
  /\ UNCHANGED << objVars, call, trainVars >>

\* model.define_loss(raw_features, mode=...)
DefineLoss(times, mode) ==
  /\ ctor.called /\ ctor.class = "ARModel"
  /\ call' = [op |-> "define_loss", mode |-> mode, times |-> times,
              out |-> define_loss(ctor.model, times, mode)]
  /\ UNCHANGED << ctor, objVars, trainVars >>

\* The outcome of the call before this one.
Previous ==
  IF call.op = "none" THEN [op |-> "none", exc |-> "none"]
  ELSE [op |-> call.op, exc |-> call.out.exc]

\* estimator.train(input_fn, steps=1): the model function builds the loss in
\* TRAIN mode; an exception leaves the estimator as it was, otherwise one
\* step is trained and a checkpoint written.
Train(times) ==
  /\ ctor.called /\ ctor.class = "LSTMAutoRegressor"
  /\ global_step < MaxSteps
  /\ LET out == define_loss(ctor.model, times, "train")
     IN  /\ call' = [op |-> "train", times |-> times, out |-> out,
                     previous |-> Previous, step_before |-> global_step]
         /\ global_step' = IF out.exc = "none" THEN global_step + 1 ELSE global_step
  /\ UNCHANGED << ctor, objVars, graph, run, runs, last_state >>

\* estimator.evaluate(input_fn, steps=1): the model function builds the loss
\* in EVAL mode.
Evaluate(times) ==
  /\ ctor.called /\ ctor.class = "LSTMAutoRegressor"
  /\ call' = [op |-> "evaluate", times |-> times,
              out |-> define_loss(ctor.model, times, "eval"),
              previous |-> Previous, step_before |-> global_step]
  /\ UNCHANGED << ctor, objVars, trainVars >>

InitAR == InitApi

NextAR ==
  \/ \E i \in 1..MaxInputWindow, o \in 1..MaxOutputWindow : ConstructARModel(i, o)
  \/ \E i \in 1..MaxInputWindow, o \in 1..MaxOutputWindow :
       ConstructLSTMAutoRegressor(i, o)
  \/ \E times \in TimesFeatures, mode \in {"train", "eval"} : DefineLoss(times, mode)
  \/ \E times \in TimesFeatures : Train(times)
  \/ \E times \in TimesFeatures : Evaluate(times)

SpecAR == InitAR /\ [][NextAR]_vars

\* ------------------------------------------------------------------------
\* Properties of the autoregressive model (SpecAR)
\* ------------------------------------------------------------------------
\* The last n elements of x, for 1 <= n <= Len(x).
LastSteps(x, n) == [j \in 1..n |-> x[Len(x) - n + j]]

\* C12: in EVAL mode define_loss on a series of T steps with input window I
\* and output window O, T >= I + O, predicts for exactly the last
\* n = floor((T - I) / O) * O steps: the first I steps and the oldest
\* (T - I) mod O of the others are left out, every prediction is for one of
\* the last n times in order, from the I steps before its output window;
\* prediction_times is that tail of the times and the predictions have shape
\* [batch, n, num_features].
C12_LongEval ==
  (call.op = "define_loss" /\ call.mode = "eval"
     /\ Len(call.times[1]) >= ctor.model.window_size) =>
    LET T == Len(call.times[1])
        I == ctor.model.input_window_size
        O == ctor.model.output_window_size
        n == ((T - I) \div O) * O
    IN  /\ call.out.exc = "none"
        /\ n = T - I - ((T - I) % O)
        /\ call.out.shape = << Len(call.times), n, ctor.model.num_features >>
        /\ \A b \in DOMAIN call.times :
             /\ call.out.prediction_times[b] = LastSteps(call.times[b], n)
             /\ Len(call.out.predictions[b]) = n
             /\ \A j \in 1..n :
                  /\ call.out.predictions[b][j].time = call.times[b][T - n + j]
                  /\ call.out.predictions[b][j].input =
                       LET first == T - n + ((j - 1) \div O) * O - I
                       IN  SubSeq(call.times[b], first + 1, first + I)

C12_Witness ==
  /\ call.op = "define_loss" /\ call.mode = "eval"
  /\ call.out.exc = "none"
  /\ Len(call.times) = 2
  /\ ctor.model.output_window_size = 2
  /\ (Len(call.times[1]) - ctor.model.input_window_size) % 2 = 1
  /\ call.out.shape[2] = 4

\* C13: for an LSTMAutoRegressor with windows I and O, train on windows of a
\* length other than I + O raises ValueError naming window_size=I+O and
\* leaves the estimator as it was; train on windows of length I + O
\* succeeds, also right after a failed call; evaluate on a window shorter
\* than I + O raises ValueError ("requires a window of at least").
C13_WrongWindowSize ==
  LET required == ctor.model.input_window_size + ctor.model.output_window_size
  IN  /\ call.op = "train" =>
           IF Len(call.times[1]) # required
           THEN /\ call.out.exc = "ValueError"
                /\ call.out.msg = "set window_size="
                /\ call.out.window_size = required
                /\ global_step = call.step_before
           ELSE /\ call.out.exc = "none"
                /\ global_step = call.step_before + 1
      /\ (call.op = "evaluate" /\ Len(call.times[1]) < required) =>
           /\ call.out.exc = "ValueError"
           /\ call.out.msg = "requires a window of at least"
           /\ global_step = call.step_before

C13_Witness ==
  /\ call.op = "train"
  /\ call.out.exc = "none"
  /\ call.previous = [op |-> "train", exc |-> "ValueError"]
  /\ global_step = 1

\* ------------------------------------------------------------------------
\* Specification of the routing of minimize: the div-partitioning of the
\* feature ids, the gathered weights and the scatter_adds, for sparse
\* variables of every partitioning
\* ------------------------------------------------------------------------
\* Most partitions and most rows of a sparse variable, most feature ids of a
\* batch (besides the batch of all ids).
MaxPartitions == 3

MaxRows == 4

MaxIds == 2

\* The rows of the k partitions of a variable of n rows partitioned on axis
\* 0: the first n mod k partitions hold one row more.
DivRows(k, n) == [p \in 1..k |-> (n \div k) + (IF p <= n % k THEN 1 ELSE 0)]

RouteLayouts ==
  UNION {{[partitioned |-> TRUE, rows |-> DivRows(k, n)] : n \in k..MaxRows} :
         k \in 1..MaxPartitions}

\* The second sparse variable of the model, of another partitioning.
SecondRouteLayout == [partitioned |-> TRUE, rows |-> << 2, 1 >>]

\* Variable number v with the given layout; every row holds another value.
RouteVar(lay, v) ==
  [partitioned |-> lay.partitioned,
   parts |-> [p \in DOMAIN lay.rows |->
                [r \in 1..lay.rows[p] |-> R(10 * v + Offset(lay.rows, p) + r)]]]

RouteVars == {1, 2}

\* tf.unique(feature_indices)[0] of a batch: distinct feature ids in any
\* order, or all ids of the largest variable.
IdSeqs ==
  UNION {{s \in [1..len -> 0..(MaxRows - 1)] :
            \A i, j \in 1..len : i # j => s[i] # s[j]} : len \in 0..MaxIds}
  \cup {[j \in 1..n |-> j - 1] : n \in 1..MaxRows}

\* The weight deltas of the k-th result of the native optimizer.
RouteUpdates(k, sparse_idx) ==
  [v \in DOMAIN sparse_idx |->
     [j \in DOMAIN sparse_idx[v] |->
        R((IF k % 2 = 1 THEN -((k + 1) \div 2) ELSE k \div 2) * (2 * j + v))]]

\* A model after training steps and update_weights without l1: the unshrunk
\* slots and the primary variables hold the same, pairwise distinct, weights.
InitRoute ==
  \E lay \in RouteLayouts :
    LET variables ==
          [sparse_features_weights |->
             ListOf(<< RouteVar(lay, 1), RouteVar(SecondRouteLayout, 2) >>),
           dense_features_weights |-> ListOf(<< >>)]
    IN  /\ ctor = [called |-> TRUE, exc |-> "none"]
        /\ self_examples = EmptyDict
        /\ self_variables = variables
        /\ self_options = EmptyDict
        /\ self_slots = [name \in DOMAIN variables |-> variables[name].val]
        /\ self_hashtable = NoTable
        /\ call = NoCall
        /\ global_step = 0
        /\ graph = NoGraph
        /\ run = << >>
        /\ runs = 0
        /\ last_state = << >>

\* The ids are rows of sparse variable v.
IdsOf(v, sparse_idx) ==
  /\ v \in DOMAIN self_slots["sparse_features_weights"]
  /\ \A j \in DOMAIN sparse_idx :
       sparse_idx[j] < Len(Concat(self_slots["sparse_features_weights"][v].parts))

\* minimize, lines 497-542: the partition and the row of every id.
RouteIds(v, sparse_idx) ==
  /\ call.op = "none"
  /\ IdsOf(v, sparse_idx)
  /\ call' = [op |-> "partition_ids", v |-> v, sparse_idx |-> sparse_idx,
              out |-> partition_ids(self_slots["sparse_features_weights"][v].parts,
                                    sparse_idx)]
  /\ UNCHANGED << ctor, objVars, trainVars >>

\* minimize, lines 544-563: the weights handed to the optimizer.
GatherWeights(v, sparse_idx) ==
  /\ call.op = "none"
  /\ IdsOf(v, sparse_idx)
  /\ call' = [op |-> "gather", v |-> v, sparse_idx |-> sparse_idx,
              out |-> batch_gathered_weights(
                        self_slots["sparse_features_weights"][v], sparse_idx)]
  /\ UNCHANGED << ctor, objVars, trainVars >>

\* minimize, lines 607-616: the scatter_adds of one step are issued.
IssueUpdates(i1, i2, k) ==
  /\ call.op = "none"
  /\ IdsOf(1, i1) /\ IdsOf(2, i2)
  /\ call' = [op |-> "scatter_add", sparse_indices |-> << i1, i2 >>,
              sfw |-> RouteUpdates(k, << i1, i2 >>),
              before |-> self_slots, done |-> {}]
  /\ UNCHANGED << ctor, objVars, trainVars >>

\* The scatter_add of partition p of sparse variable v runs.
ApplyScatterAdd(v, p) ==
  /\ call.op = "scatter_add"
  /\ v \in DOMAIN self_slots["sparse_features_weights"]
  /\ p \in DOMAIN self_slots["sparse_features_weights"][v].parts
  /\ << v, p >> \notin call.done
  /\ self_slots' =
       [self_slots EXCEPT !["sparse_features_weights"][v].parts[p] =
          partitioned_update(self_slots["sparse_features_weights"][v],
                             call.sparse_indices[v], call.sfw[v], p)]
  /\ call' = [call EXCEPT !.done = @ \cup {<< v, p >>}]
  /\ UNCHANGED << ctor, self_examples, self_variables, self_options,
                  self_hashtable, trainVars >>

NextRoute ==
  \/ \E v \in RouteVars, sparse_idx \in IdSeqs : RouteIds(v, sparse_idx)
  \/ \E v \in RouteVars, sparse_idx \in IdSeqs : GatherWeights(v, sparse_idx)
  \/ \E i1 \in IdSeqs, i2 \in {<< 2, 0 >>, << 1 >>}, k \in 1..MaxOutcome :
       IssueUpdates(i1, i2, k)
  \/ \E v \in RouteVars, p \in 1..MaxPartitions : ApplyScatterAdd(v, p)

SpecRoute == InitRoute /\ [][NextRoute]_vars

\* ------------------------------------------------------------------------
\* Properties of the routing (SpecRoute)
\* ------------------------------------------------------------------------
RowsOf(slot) == [p \in DOMAIN slot.parts |-> Len(slot.parts[p])]

SparseSlot(v) == self_slots["sparse_features_weights"][v]

\* C14: for a sparse variable of k >= 1 partitions and n >= k rows, the
\* first n mod k partitions holding floor(n / k) + 1 rows and the others
\* floor(n / k), minimize maps every feature id f in [0, n) to a partition p
\* and a row r with 0 <= p < k, 0 <= r < rows(p) and
\* f = (rows of the partitions before p) + r; distinct ids get distinct
\* pairs.
C14_DivPartitionRouting ==
  call.op = "partition_ids" =>
    LET rows == RowsOf(SparseSlot(call.v))
        k == Len(rows)
        n == Len(Concatenated(SparseSlot(call.v)))
        P(j) == call.out.p_assignments[j]
        r(j) == call.out.new_ids[j]
    IN  (k >= 1 /\ n >= k /\ rows = DivRows(k, n)) =>
          /\ DOMAIN call.out.p_assignments = DOMAIN call.sparse_idx
          /\ DOMAIN call.out.new_ids = DOMAIN call.sparse_idx
          /\ \A j \in DOMAIN call.sparse_idx :
               /\ 0 <= P(j) /\ P(j) < k
               /\ 0 <= r(j) /\ r(j) < rows[P(j) + 1]
               /\ call.sparse_idx[j] = Offset(rows, P(j) + 1) + r(j)
          /\ \A i, j \in DOMAIN call.sparse_idx :
               i # j => << P(i), r(i) >> # << P(j), r(j) >>

C14_Witness ==
  /\ call.op = "partition_ids"
  /\ RowsOf(SparseSlot(call.v)) = << 2, 1, 1 >>
  /\ call.sparse_idx = << 0, 1, 2, 3 >>
  /\ call.out.p_assignments = << 0, 0, 1, 2 >>

\* The sum of the updates of the ids equal to f.
DeltaOf(f, sparse_idx, u) ==
  RatSum([j \in DOMAIN sparse_idx |-> IF sparse_idx[j] = f THEN u[j] ELSE R(0)])

AllScatterAdds ==
  UNION {{<< v, p >> : p \in DOMAIN SparseSlot(v).parts} :
         v \in DOMAIN self_slots["sparse_features_weights"]}

\* C15: the scatter_add of partition p of a partitioned sparse variable adds
\* u[j] to exactly the row of p holding feature id sparse_idx[j], by the
\* variable's own partitioning, whatever the other variables' partitions
\* and ids; partitions whose scatter_add has not run are unchanged; after
\* all of them the concatenated partitions equal a single
\* scatter_add(w, sparse_idx, u) on the unpartitioned variable.
C15_PartitionedScatterAdd ==
  call.op = "scatter_add" =>
    \A v \in DOMAIN self_slots["sparse_features_weights"] :
      LET slot == SparseSlot(v)
          before == call.before["sparse_features_weights"][v]
          rows == RowsOf(slot)
      IN  /\ \A p \in DOMAIN slot.parts :
               IF << v, p >> \in call.done
               THEN \A r \in 1..rows[p] :
                      slot.parts[p][r] =
                        RatAdd(before.parts[p][r],
                               DeltaOf(Offset(rows, p) + r - 1,
                                       call.sparse_indices[v], call.sfw[v]))
               ELSE slot.parts[p] = before.parts[p]
          /\ call.done = AllScatterAdds =>
               Concatenated(slot) =
                 scatter_add(Concatenated(before), call.sparse_indices[v],
                             call.sfw[v])

C15_Witness ==
  /\ call.op = "scatter_add"
  /\ call.done = AllScatterAdds
  /\ Len(SparseSlot(1).parts) = 3
  /\ Len(SparseSlot(2).parts) = 2
  /\ call.sparse_indices = << << 3, 0 >>, << 2, 0 >> >>
  /\ \A p \in {1, 3} : SparseSlot(1).parts[p] # call.before["sparse_features_weights"][1].parts[p]

\* C16: for a partitioned sparse variable, element j of the weights handed
\* to the optimizer is the row sparse_idx[j] of the concatenated variable,
\* for every j: the order of the ids before the dynamic partition, and what
\* the unpartitioned branch gathers for the same ids.
C16_StitchedInOrder ==
  call.op = "gather" =>
    /\ DOMAIN call.out = DOMAIN call.sparse_idx
    /\ \A j \in DOMAIN call.sparse_idx :
         call.out[j] = Concatenated(SparseSlot(call.v))[call.sparse_idx[j] + 1]
    /\ call.out = gather(Concatenated(SparseSlot(call.v)), call.sparse_idx)

C16_Witness ==
  /\ call.op = "gather"
  /\ Len(SparseSlot(call.v).parts) = 3
  /\ call.sparse_idx = << 3, 0 >>
  /\ call.out = << R(14), R(11) >>

\* ------------------------------------------------------------------------
\* The linear prediction (SpecApi)
\* ------------------------------------------------------------------------
\* The examples are well defined and every sparse column has its values.
WithFeatureValues ==
  /\ ~NotWellDefined
  /\ \A c \in DOMAIN call.examples["sparse_features"].val :
       call.examples["sparse_features"].val[c].feature_values.kind # "None"

\* The sum of w[f] * v over the entries <e, f, v> of sparse column c.
SparseContribution(c, e) ==
  LET sfc == call.examples["sparse_features"].val[c]
      w == Concatenated(self_variables["sparse_features_weights"].val[c])
  IN  RatSum([j \in DOMAIN sfc.example_indices |->
                IF sfc.example_indices[j] = e - 1
                THEN RatMul(w[sfc.feature_indices[j] + 1], sfc.feature_values.val[j])
                ELSE R(0)])

\* The dot product of row e of dense feature i with its weights.
DenseContribution(i, e) ==
  LET x == Concatenated(call.examples["dense_features"].val[i])[e]
      w == Concatenated(self_variables["dense_features_weights"].val[i])
  IN  RatSum([k \in DOMAIN w |-> RatMul(x[k], w[k])])

ExpectedPrediction(e) ==
  RatAdd(RatSum([c \in DOMAIN call.examples["sparse_features"].val |->
                   SparseContribution(c, e)]),
         RatSum([i \in DOMAIN call.examples["dense_features"].val |->
                   DenseContribution(i, e)]))

\* C17: the linear prediction of example e of a batch of B examples is the
\* sum over every sparse column and every entry <e, f, v> of it of w[f] * v
\* (a repeated entry counts as often as it occurs) plus the dot product of
\* every dense feature row e with its weights; there are exactly B
\* predictions, and a column without entry for an example (a trailing
\* example included) contributes 0 to it.
C17_LinearPrediction ==
  (call.op = "predictions" /\ WithFeatureValues) =>
    /\ call.out.exc = "none"
    /\ Len(call.out.val.arg) = Len(call.examples["example_ids"].val)
    /\ \A e \in DOMAIN call.out.val.arg : call.out.val.arg[e] = ExpectedPrediction(e)
    /\ \A e \in DOMAIN call.out.val.arg :
         \A c \in DOMAIN call.examples["sparse_features"].val :
           (e - 1) \notin Range(call.examples["sparse_features"].val[c].example_indices)
             => SparseContribution(c, e) = R(0)

C17_Witness ==
  /\ call.op = "predictions" /\ WithFeatureValues
  /\ call.out.exc = "none"
  /\ LET sfc == call.examples["sparse_features"].val[1]
     IN  /\ sfc.example_indices = << 0, 0 >>
         /\ sfc.feature_indices = << 2, 2 >>
         /\ SparseContribution(1, 1) = R(3)
  /\ SparseContribution(1, 2) = R(0)
  /\ call.out.val.arg[1] # R(0)

\* ------------------------------------------------------------------------
\* Specification of concurrent training: two workers running the operation
\* returned by minimize on the same model
\* ------------------------------------------------------------------------
\* The variables of the model: a partitioned sparse variable and an
\* unpartitioned dense variable.
ConcurrentSparseLayout == << SparseLayout[1] >>

ConcurrentDenseLayout == << [partitioned |-> FALSE, rows |-> << 2 >>] >>

ConcurrentVariables ==
  [sparse_features_weights |->
     ListOf([v \in DOMAIN ConcurrentSparseLayout |-> MakeVar(ConcurrentSparseLayout[v])]),
   dense_features_weights |->
     ListOf([v \in DOMAIN ConcurrentDenseLayout |-> MakeVar(ConcurrentDenseLayout[v])])]

ConcurrentConfig == [l1 |-> 0, l2 |-> 2, shards |-> 2, use_global_step |-> TRUE]

InitConcurrent ==
  LET options == TrainOptions(ConcurrentConfig)
      st == SDCAModel_init(DefaultExamples, ConcurrentVariables, options)
  IN  /\ ctor = [called |-> TRUE, examples |-> DefaultExamples,
                 variables |-> ConcurrentVariables, options |-> options,
                 exc |-> st.exc, warned |-> st.warned,
                 slots_created |-> st.slots # NoSlots,
                 table_created |-> st.hashtable # NoTable]
      /\ self_examples = st.examples
      /\ self_variables = st.variables
      /\ self_options = st.options
      /\ self_slots = st.slots
      /\ self_hashtable = st.hashtable
      /\ call = NoCall
      /\ global_step = 0
      /\ graph = [built |-> TRUE, use_global_step |-> ConcurrentConfig.use_global_step]
      /\ run = [w \in Workers |-> Idle]
      /\ runs = 0
      /\ last_state = << >>

\* Each worker runs the operation returned by minimize once.
StartConcurrentRun(w, examples) ==
  /\ runs < Cardinality(Workers)
  /\ StartRun(w, "minimize", examples)

NextConcurrent ==
  \/ \E w \in Workers, examples \in TrainBatches : StartConcurrentRun(w, examples)
  \/ \E w \in Workers : Lookup(w)
  \/ \E w \in Workers, v \in DOMAIN ConcurrentSparseLayout : Gather(w, v)
  \/ \E w \in Workers : ReadDense(w)
  \/ \E w \in Workers, k \in 1..MaxOutcome : SdcaOptimizer(w, k)
  \/ \E w \in Workers : Insert(w)
  \/ \E w \in Workers, v \in DOMAIN ConcurrentSparseLayout :
       \E p \in DOMAIN ConcurrentSparseLayout[v].rows : ScatterAdd(w, v, p)
  \/ \E w \in Workers, v \in DOMAIN ConcurrentDenseLayout :
       \E p \in DOMAIN ConcurrentDenseLayout[v].rows : AssignAdd(w, v, p)
  \/ \E w \in Workers : IncrementGlobalStep(w)
  \/ \E w \in Workers : FinishRun(w)

SpecConcurrent == InitConcurrent /\ [][NextConcurrent]_vars

\* ------------------------------------------------------------------------
\* Properties of concurrent training (SpecConcurrent)
\* ------------------------------------------------------------------------
\* The concatenated slots with the deltas of run r added.
WithDeltas(weights, r) ==
  [sparse_features_weights |->
     [v \in DOMAIN weights["sparse_features_weights"] |->
        FullScatterAdd(weights["sparse_features_weights"][v],
                       Unique(r.examples["sparse_features"].val[v].feature_indices),
                       r.sfw[v])],
   dense_features_weights |->
     [v \in DOMAIN weights["dense_features_weights"] |->
        [i \in DOMAIN weights["dense_features_weights"][v] |->
           RatAdd(weights["dense_features_weights"][v][i], r.dfw[v][i])]]]

ConcatenatedSlots(slots) ==
  [name \in DOMAIN slots |->
     [v \in DOMAIN slots[name] |-> Concatenated(slots[name][v])]]

\* Workers a and b ran minimize concurrently, a having started first, and
\* both have finished.
BothFinished(a, b) ==
  /\ a # b
  /\ Finished(a) /\ run[a].target = "minimize"
  /\ Finished(b) /\ run[b].target = "minimize"
  /\ run[b].started = run[a].started + 1
  /\ runs = run[b].started

====
